---- MODULE Spec2Model ----
(***************************************************************************)
(* Model of the memorious crawl-pipeline engine: execution context, emit   *)
(* protocol, incremental dedup tags, job dispatch and the fetch operation. *)
(*                                                                         *)
(* Strings are sequences of symbols, so that key construction             *)
(* (join_relpaths, Context.make_key) is computed the way the code         *)
(* computes it.  Python dicts are functions whose DOMAIN is the set of    *)
(* keys present.  Python's None is the one-symbol string None.            *)
(***************************************************************************)
EXTENDS Integers, Sequences, FiniteSets, TLC

VARIABLES
    tags,       \* keys present in the tag store (Tags.put / Tags.exists)
    queue,      \* jobs deferred on the queue, in order
    pc,         \* worker position: "idle" | "ctx" | "api"
    ctx,        \* the live Context object (NoCtx when none)
    workdirs,   \* scratch directories that exist on disk
    minted,     \* number of run ids minted by ensure_uuid / Crawler.run
    runs,       \* run id -> flags the run was started with
    stored,     \* URLs for which a store stage has completed (per run)
    completed,  \* cache keys handed to a successful mark_emit_complete
    asked,      \* criteria already passed to skip_incremental
    job,        \* the job the worker is executing (NoJob when none); per worker: its data
    obs,        \* observation of the last call (what a caller can see)
    resp,       \* the ContextHttpResponse object a stage holds
    httptags,   \* tag store values: made key -> serialized response metadata
    net,        \* counters: requests sent, bodies streamed, archive writes, clock
    sessions,   \* cache: session key -> SessionModel
    https,      \* stage -> its ContextHttp (loaded session and httpx client)
    saved,      \* run id -> session state written by the last save of the run
    workers,    \* worker -> its position inside the stage it is executing
    params,     \* stage.params: the skip_incremental entry of the early stage
    monitor,    \* the IdleMonitor, its worker and the job queue it polls
    out,        \* what the stage under study handed downstream, in order
    manager     \* the CrawlerManager: its crawlers map and the files on disk

httpvars ==
    <<resp, httptags, net, sessions, https, saved, workers, params, monitor, out,
      manager>>

vars == <<tags, queue, pc, ctx, workdirs, minted, runs, stored, completed, asked,
          job, obs, resp, httptags, net, sessions, https, saved, workers, params,
          monitor, out, manager>>

----------------------------------------------------------------------------
(* Bounds *)

MaxKeyLen == 2          \* longest raw key / criteria string drawn as input
MaxQueue == 2           \* jobs held in the queue at one time
MaxRuns == 2            \* runs started by Crawler.run
MaxDeferred == 1        \* jobs deferred through one directly built Context
MaxSends == 2           \* HTTP requests sent through one ContextHttp

----------------------------------------------------------------------------
(* Strings *)

None == <<"None">>

Alphabet == {"a", "c"}

CrawlerName == <<"c">>

Truthy(s) == s # None /\ s # <<>>

StartsWith(s, p) == Len(s) >= Len(p) /\ SubSeq(s, 1, Len(p)) = p

Drop(s, n) == SubSeq(s, n + 1, Len(s))

RECURSIVE LStrip(_)
LStrip(s) == IF s # <<>> /\ Head(s) = "/" THEN LStrip(Tail(s)) ELSE s

RECURSIVE RStrip(_)
RStrip(s) ==
    IF s # <<>> /\ s[Len(s)] = "/" THEN RStrip(SubSeq(s, 1, Len(s) - 1)) ELSE s

\* str.strip("/")
Strip(s) == RStrip(LStrip(s))

RECURSIVE JoinSlash(_)
JoinSlash(parts) ==
    IF parts = <<>> THEN <<>>
    ELSE IF Len(parts) = 1 THEN parts[1]
    ELSE parts[1] \o <<"/">> \o JoinSlash(Tail(parts))

\* anystore.util.join_relpaths: "/".join(p.strip("/") for p in parts if p).strip("/")
join_relpaths(parts) ==
    LET kept == SelectSeq(parts, LAMBDA p : Truthy(p))
        stripped == [i \in 1..Len(kept) |-> Strip(kept[i])]
    IN Strip(JoinSlash(stripped))

RECURSIVE StringsUpTo(_)
StringsUpTo(n) ==
    IF n = 0 THEN {<<>>}
    ELSE LET shorter == StringsUpTo(n - 1)
         IN shorter \cup {s \o <<ch>> : s \in {t \in shorter : Len(t) = n - 1}, ch \in Alphabet}

\* raw keys a stage author may pass as criteria
RawKeys == StringsUpTo(MaxKeyLen) \ {<<>>}

----------------------------------------------------------------------------
(* Context.make_key and the tag helpers *)

make_key(parts, prefix) ==
    LET key0 == join_relpaths(parts)
        key1 == IF StartsWith(key0, CrawlerName)
                THEN Drop(key0, Len(CrawlerName) + 1)
                ELSE key0
        key2 == IF Truthy(prefix) THEN join_relpaths(<<prefix, key1>>) ELSE key1
    IN IF key0 = None THEN None ELSE join_relpaths(<<CrawlerName, key2>>)

\* Context.set_tag: the tag store after the call
set_tag(tg, key) ==
    IF ~Truthy(key) THEN tg ELSE tg \cup {make_key(<<key>>, None)}

\* Context.check_tag
check_tag(tg, key) ==
    IF ~Truthy(key) THEN FALSE ELSE make_key(<<key>>, None) \in tg

----------------------------------------------------------------------------
(* Dicts, URLs and the static pipeline *)

EmptyDict == <<>>

Get(d, k) == IF k \in DOMAIN d THEN d[k] ELSE None

Put(d, k, v) == (k :> v) @@ d

Without(d, k) == [x \in DOMAIN d \ {k} |-> d[x]]

\* dict.update(other)
Update(d, other) == other @@ d

Restrict(d, ks) == [x \in ks |-> d[x]]

\* banal.hash_data: an injective digest without path separators
hash_data(s) == <<"#">> \o [i \in 1..Len(s) |-> IF s[i] = "/" THEN "%" ELSE s[i]]

\* a URL is its netloc symbol followed by its path; urlsplit takes it apart
U1 == <<"h1", "/", "p">>
U2 == <<"h1", "/", "q">>
Urls == {U1, U2}

UrlNetloc(u) == <<Head(u)>>
UrlPath(u) == Tail(u)

\* memorious.util.make_url_key (method GET, no query, no body)
make_url_key(url) ==
    join_relpaths(<<(<<"GET">>), UrlNetloc(url), UrlPath(url), hash_data(url)>>)

NoStage == "<None>"

\* keep (directory) and lake (lakehouse) are storage stages followed by export
StageNames == {"init", "fetch", "parse", "store", "keep", "lake", "export"}

\* handle: tables of the pipeline; parse's "pass" names a stage that is not configured
Handlers ==
    [init  |-> ("pass" :> "fetch"),
     fetch |-> ("pass" :> "parse"),
     parse |-> ("fetch" :> "fetch") @@ ("store" :> "store") @@ ("pass" :> "ghost"),
     store |-> EmptyDict,
     keep |-> ("pass" :> "export"),
     lake |-> ("pass" :> "export"),
     export |-> EmptyDict]

\* stage.handlers.get(rule)
HandlerGet(stage, rule) ==
    IF rule \in DOMAIN Handlers[stage] THEN Handlers[stage][rule] ELSE NoStage

\* settings.debug (default)
SettingsDebug == FALSE

\* no response object, no HTTP client, no cached metadata, nothing in flight
NetZero == [sends |-> 0, streams |-> 0, writes |-> 0, now |-> 0]

HttpIdle ==
    /\ resp = EmptyDict
    /\ httptags = EmptyDict
    /\ net = NetZero
    /\ sessions = EmptyDict
    /\ https = EmptyDict
    /\ saved = EmptyDict
    /\ workers = EmptyDict
    /\ params = EmptyDict
    /\ monitor = EmptyDict
    /\ out = <<>>
    /\ manager = EmptyDict

----------------------------------------------------------------------------
(* Context *)

NoCtx ==
    [stage |-> NoStage, run_id |-> None, incremental |-> FALSE,
     continue_on_error |-> FALSE, work_path |-> 0]

\* ensure_uuid / Job.random_id: the n-th fresh identifier
Uuid(n) == <<"uuid" \o ToString(n)>>

\* Context.__init__ that always takes a fresh run id
NewContextFreshRun(stage, state, n, dirs) ==
    LET wp == IF dirs = {} THEN 1 ELSE 1 + CHOOSE d \in dirs : \A e \in dirs : e <= d
    IN [ctx |-> [stage |-> stage,
                 run_id |-> Uuid(n + 1),
                 incremental |-> state.incremental,
                 continue_on_error |-> state.continue_on_error,
                 work_path |-> wp],
        minted |-> n + 1,
        workdirs |-> dirs \cup {wp}]

\* Context.__init__: run id from the state or a fresh one, and a fresh scratch dir
NewContext(stage, state, n, dirs) ==
    LET rid == Get(state, "run_id")
        mint == ~Truthy(rid)
        wp == IF dirs = {} THEN 1 ELSE 1 + CHOOSE d \in dirs : \A e \in dirs : e <= d
    IN [ctx |-> [stage |-> stage,
                 run_id |-> IF mint THEN Uuid(n + 1) ELSE rid,
                 incremental |-> state.incremental,
                 continue_on_error |-> state.continue_on_error,
                 work_path |-> wp],
        minted |-> IF mint THEN n + 1 ELSE n,
        workdirs |-> dirs \cup {wp}]

\* _make_emit_cache_key consulting content_hash before foreign_id
make_emit_cache_key_hash_first(data) ==
    IF Truthy(Get(data, "emit_cache_key"))
    THEN make_key(<<Get(data, "emit_cache_key")>>, <<"emit">>)
    ELSE IF Truthy(Get(data, "content_hash"))
    THEN make_key(<<Get(data, "content_hash")>>, <<"emit">>)
    ELSE IF Truthy(Get(data, "foreign_id"))
    THEN make_key(<<Get(data, "foreign_id")>>, <<"emit">>)
    ELSE IF Truthy(Get(data, "url"))
    THEN make_key(<<make_url_key(Get(data, "url"))>>, <<"emit">>)
    ELSE None

\* Context._make_emit_cache_key
make_emit_cache_key(data) ==
    IF Truthy(Get(data, "emit_cache_key"))
    THEN make_key(<<Get(data, "emit_cache_key")>>, <<"emit">>)
    ELSE IF Truthy(Get(data, "foreign_id"))
    THEN make_key(<<Get(data, "foreign_id")>>, <<"emit">>)
    ELSE IF Truthy(Get(data, "content_hash"))
    THEN make_key(<<Get(data, "content_hash")>>, <<"emit">>)
    ELSE IF Truthy(Get(data, "url"))
    THEN make_key(<<make_url_key(Get(data, "url"))>>, <<"emit">>)
    ELSE None

\* tasks.defer_stage: the payload put on the queue
defer_stage(q, stage, run_id, data, incremental, continue_on_error) ==
    Append(q, [stage |-> stage, run_id |-> run_id, data |-> data,
               incremental |-> incremental,
               continue_on_error |-> continue_on_error,
               attempts |-> 0])

\* Crawler.defer hands its arguments to tasks.defer_stage
crawler_defer(q, stage, data, run_id, incremental, continue_on_error) ==
    defer_stage(q, stage, run_id, data, incremental, continue_on_error)

\* Python's `a or b` on booleans
PyOr(a, b) == IF a THEN a ELSE b

\* emit_target without the `stage not in self.crawler.stages` test
emit_target_unchecked(c, rule, stage, optional) ==
    IF stage = NoStage THEN HandlerGet(c.stage, rule) ELSE stage

\* Context.emit, lines 155-162: the target stage, or NoStage when the call
\* returns without one
emit_target(c, rule, stage, optional) ==
    LET named == IF stage = NoStage THEN HandlerGet(c.stage, rule) ELSE stage
    IN  IF optional /\ named = NoStage THEN NoStage
        ELSE IF named = NoStage \/ named \notin StageNames THEN NoStage
        ELSE named

\* Context.emit, lines 165-169: the incremental check suppresses the emit
emit_skips(c, tg, data) ==
    /\ c.incremental
    /\ Truthy(make_emit_cache_key(data))
    /\ check_tag(tg, make_emit_cache_key(data))

\* Context.emit, lines 153 and 171: the dict the caller passed, once the cache
\* key has been stored in `data` (`data or {}` swaps an empty dict for a new one)
emit_caller_data(c, data) ==
    IF c.incremental /\ DOMAIN data # {}
    THEN Put(data, "_emit_cache_key", make_emit_cache_key(data))
    ELSE data

\* Context.emit, lines 171 and 185: the copy that is deferred
emit_outgoing(c, data) ==
    IF c.incremental
    THEN Put(data, "_emit_cache_key", make_emit_cache_key(data))
    ELSE data

\* Context.emit, lines 188-194: the job deferred for `target`
emit_defer(c, q, target, outgoing) ==
    crawler_defer(q, target, outgoing, c.run_id,
                  PyOr(c.incremental, TRUE), PyOr(c.continue_on_error, FALSE))

\* Context.emit.  Result: the queue, the caller's dict as the call leaves it,
\* whether a job was deferred, whether an exception left the call, and the
\* target stage.
emit(c, tg, q, rule, stage, data, optional, sampled_out) ==
    LET target == emit_target(c, rule, stage, optional)
        quiet(d) ==
            [queue |-> q, data |-> d, enq |-> FALSE, raised |-> FALSE,
             target |-> target]
    IN  IF target = NoStage THEN quiet(data)
        ELSE IF emit_skips(c, tg, data) THEN quiet(data)
        ELSE IF SettingsDebug /\ sampled_out THEN quiet(emit_caller_data(c, data))
        ELSE [queue |-> emit_defer(c, q, target, emit_outgoing(c, data)),
              data |-> emit_caller_data(c, data),
              enq |-> TRUE, raised |-> FALSE, target |-> target]

\* mark_emit_complete reading the caller-supplied key instead of the stashed one
mark_emit_complete_wrong_field(tg, data) ==
    IF Truthy(Get(data, "emit_cache_key"))
    THEN set_tag(tg, Get(data, "emit_cache_key"))
    ELSE tg

\* Context.mark_emit_complete: the tag store after the call
mark_emit_complete(tg, data) ==
    IF Truthy(Get(data, "_emit_cache_key"))
    THEN set_tag(tg, Get(data, "_emit_cache_key"))
    ELSE tg

\* Context.recurse
recurse(c, tg, q, data, sampled_out) ==
    emit(c, tg, q, "pass", c.stage, data, FALSE, sampled_out)

\* Context.skip_incremental
skip_incremental(c, tg, criteria) ==
    LET key == make_key(criteria, <<"inc">>)
    IN  IF ~c.incremental THEN [ret |-> FALSE, tags |-> tg]
        ELSE IF key = None THEN [ret |-> FALSE, tags |-> tg]
        ELSE IF check_tag(tg, key) THEN [ret |-> TRUE, tags |-> tg]
        ELSE [ret |-> FALSE, tags |-> set_tag(tg, key)]

----------------------------------------------------------------------------------------------------------------------------------------
(* Direct use of one Context: the calls a stage body (or a test) makes *)

\* hashlib.sha1 of a body: an injective digest
Sha1(body) == <<"#", body>>

R1 == <<"r1">>

DataFull ==
    [url |-> U1, content_hash |-> Sha1("b1"), foreign_id |-> <<"a">>]

\* dicts handed to emit / mark_emit_complete
DataInputs ==
    {Restrict(DataFull, ks) :
        ks \in {{}, {"url"}, {"url", "content_hash"}, {"foreign_id", "url"}}}
    \cup {Put(Restrict(DataFull, {"foreign_id"}), "emit_cache_key", <<>>)}

Rules == {"pass", "store", "bogus"}

StageArgs == {NoStage, "ghost"}

QueuedData == {queue[i].data : i \in 1..Len(queue)}

SampleOutcomes == IF SettingsDebug THEN BOOLEAN ELSE {FALSE}

\* a Context built directly on the parse stage, as the tests build one
CtxInit ==
    /\ tags = {}
    /\ queue = <<>>
    /\ pc = "api"
    /\ \E inc \in BOOLEAN, coe \in BOOLEAN :
          LET state == [run_id |-> R1, incremental |-> inc,
                        continue_on_error |-> coe]
              new == NewContext("parse", state, 0, {})
          IN /\ ctx = new.ctx
             /\ minted = new.minted
             /\ workdirs = new.workdirs
    /\ obs = [op |-> "init"]
    /\ runs = EmptyDict
    /\ stored = {}
    /\ completed = {}
    /\ asked = {}
    /\ job = [stage |-> NoStage]
    /\ HttpIdle

ApiEmit ==
    /\ pc = "api"
    /\ \E rule \in Rules, stage \in StageArgs, data \in DataInputs \cup QueuedData,
          optional \in BOOLEAN, sampled_out \in SampleOutcomes :
          LET r == emit(ctx, tags, queue, rule, stage, data, optional, sampled_out)
          IN /\ Len(r.queue) <= MaxDeferred
             /\ queue' = r.queue
             /\ obs' = [op |-> "emit", rule |-> rule, stage |-> stage,
                        optional |-> optional,
                        before |-> data, after |-> r.data,
                        enq |-> r.enq, raised |-> r.raised,
                        key_done |-> make_emit_cache_key(data) \in completed,
                        qlen |-> Len(queue)]
    /\ UNCHANGED <<tags, pc, ctx, workdirs, minted, runs, stored, completed, asked, job, httpvars>>

\* mark_emit_complete called with `data`
MarkCall(data) ==
    /\ tags' = mark_emit_complete(tags, data)
    /\ completed' = IF Truthy(Get(data, "_emit_cache_key"))
                    THEN completed \cup {Get(data, "_emit_cache_key")}
                    ELSE completed
    /\ obs' = [op |-> "mark",
               stash |-> Truthy(Get(data, "_emit_cache_key")),
               wrote |-> mark_emit_complete(tags, data) # tags]

\* a storing stage body calls mark_emit_complete on a dict of its own
ApiMarkEmitComplete ==
    /\ pc = "api"
    /\ \E data \in DataInputs : MarkCall(data)
    /\ UNCHANGED <<queue, pc, ctx, workdirs, minted, runs, stored, asked, job, httpvars>>

\* the oldest deferred job is taken off the queue and its data, which carries
\* the key emit stashed, is marked complete
ApiMarkDeferred ==
    /\ pc = "api"
    /\ queue # <<>>
    /\ MarkCall(Head(queue).data)
    /\ queue' = Tail(queue)
    /\ UNCHANGED <<pc, ctx, workdirs, minted, runs, stored, asked, job, httpvars>>

CtxNext == ApiEmit \/ ApiMarkEmitComplete \/ ApiMarkDeferred

SpecCtx == CtxInit /\ [][CtxNext]_vars

\* dicts holding the fields _make_emit_cache_key consults, present, empty
\* or missing
KeyInputs ==
    {Restrict(DataFull, ks) :
        ks \in {{}, {"url"}, {"content_hash"}, {"content_hash", "url"},
                {"content_hash", "foreign_id"},
                {"content_hash", "foreign_id", "url"}}}
    \cup {Put(DataFull, "emit_cache_key", <<"b">>),
          Put(Restrict(DataFull, {"foreign_id"}), "emit_cache_key", <<>>),
          [emit_cache_key |-> <<>>, foreign_id |-> <<>>]}

\* context.emit(rule="store", data=data) from the parse stage, whose "store"
\* handler is the store stage
KeyEmit ==
    /\ pc = "api"
    /\ \E data \in KeyInputs, sampled_out \in SampleOutcomes :
          LET r == emit(ctx, tags, queue, "store", NoStage, data, FALSE, sampled_out)
          IN /\ Len(r.queue) <= MaxDeferred
             /\ queue' = r.queue
             /\ obs' = [op |-> "emit", rule |-> "store", stage |-> NoStage,
                        before |-> data,
                        enq |-> r.enq,
                        key |-> make_emit_cache_key(data),
                        sampled |-> sampled_out,
                        tagged |-> tags # {}]
    /\ UNCHANGED <<tags, pc, ctx, workdirs, minted, runs, stored, completed, asked, job, httpvars>>

KeyNext == KeyEmit \/ ApiMarkDeferred

SpecKey == CtxInit /\ [][KeyNext]_vars

\* one Context asked about criteria one call after another
ApiSkipIncremental ==
    /\ pc = "api"
    /\ \E k \in RawKeys :
          LET r == skip_incremental(ctx, tags, <<k>>)
          IN /\ tags' = r.tags
             /\ asked' = asked \cup {k}
             /\ obs' = [op |-> "skip", criteria |-> k, ret |-> r.ret,
                        first |-> k \notin asked]
    /\ UNCHANGED <<queue, pc, ctx, workdirs, minted, runs, stored, completed, job, httpvars>>

SkipNext == ApiSkipIncremental

SpecSkip == CtxInit /\ [][SkipNext]_vars

----------------------------------------------------------------------------
(* A pipeline run: init (seed) -> fetch -> parse -> store (directory) *)

\* params of the seed stage: url
SeedUrls == <<U1>>

\* bodies the server may answer with
Bodies == {"b1", "b2"}

\* fetch: int(context.get("retry", 3))
FetchRetry == 3

\* @task(app=app, retry=3)
TaskRetry == 3

NoJob == [stage |-> NoStage]

\* settings.CONTINUE_ON_ERROR: one value for the life of the process
SettingsContinueOnError ==
    IF runs = EmptyDict THEN BOOLEAN
    ELSE {runs[r].continue_on_error : r \in DOMAIN runs}

\* Crawler.run: cancel what is queued, then queue the init stage of a new run
StartRun ==
    /\ pc = "idle"
    /\ Cardinality(DOMAIN runs) < MaxRuns
    /\ \E inc \in BOOLEAN, coe \in SettingsContinueOnError :
          LET rid == Uuid(minted + 1)
          IN /\ minted' = minted + 1
             /\ runs' = Put(runs, rid, [incremental |-> inc,
                                        continue_on_error |-> coe])
             /\ queue' = defer_stage(<<>>, "init", rid, EmptyDict, inc, coe)
             /\ obs' = [op |-> "run", run_id |-> rid]
    /\ UNCHANGED <<tags, pc, ctx, workdirs, stored, completed, asked, job, httpvars>>

RemoveAt(q, i) == SubSeq(q, 1, i - 1) \o SubSeq(q, i + 1, Len(q))

\* tasks.execute_stage, lines 45-65: a worker takes a job and builds its Context
ExecuteStageBegin ==
    /\ pc = "idle"
    /\ \E i \in 1..Len(queue) :
          LET j == queue[i]
              state == [run_id |-> j.run_id, incremental |-> j.incremental,
                        continue_on_error |-> j.continue_on_error]
              new == NewContext(j.stage, state, minted, workdirs)
          IN /\ queue' = RemoveAt(queue, i)
             /\ IF j.stage \notin StageNames
                THEN /\ obs' = [op |-> "nostage"]
                     /\ UNCHANGED <<pc, ctx, workdirs, minted, job>>
                ELSE /\ pc' = "ctx"
                     /\ ctx' = new.ctx
                     /\ minted' = new.minted
                     /\ workdirs' = new.workdirs
                     /\ job' = j
                     /\ obs' = [op |-> "begin", run_id |-> j.run_id]
    /\ UNCHANGED <<tags, runs, stored, completed, asked, httpvars>>

\* execute with the rmtree after the call instead of in a finally block
execute_cleanup_on_return(c, dirs, body_raised) ==
    [logged |-> body_raised,
     raises |-> body_raised /\ ~c.continue_on_error,
     workdirs |-> IF body_raised /\ ~c.continue_on_error
                  THEN dirs ELSE dirs \ {c.work_path}]

\* execute that re-raises whatever the run's continue_on_error says
execute_always_raises(c, dirs, body_raised) ==
    [logged |-> body_raised,
     raises |-> body_raised,
     workdirs |-> dirs \ {c.work_path}]

\* Context.execute around a stage body that raised or not: whether the
\* exception is logged, whether it leaves execute, and the scratch dirs left
execute(c, dirs, body_raised) ==
    [logged |-> body_raised,
     raises |-> body_raised /\ ~c.continue_on_error,
     workdirs |-> dirs \ {c.work_path}]

\* tasks.execute_stage, lines 67-73: the task fails when execute raised and
\* the payload does not ask to continue
task_fails(j, execute_raised) ==
    execute_raised /\ ~j.continue_on_error

\* the queue library retries a failed task up to TaskRetry times
task_retry(q, j, failed) ==
    IF failed /\ j.attempts < TaskRetry
    THEN Append(q, [j EXCEPT !.attempts = @ + 1])
    ELSE q

\* operations.initializers.seed: one emit per configured URL
RECURSIVE seed_emits(_, _, _, _)
seed_emits(c, tg, q, urls) ==
    IF urls = <<>> THEN q
    ELSE seed_emits(c, tg,
                    emit(c, tg, q, "pass", NoStage, ("url" :> Head(urls)),
                         FALSE, FALSE).queue,
                    Tail(urls))

seed(c, tg, q, data) ==
    [tags |-> tg, queue |-> seed_emits(c, tg, q, SeedUrls), raised |-> FALSE]

\* ContextHttpResponse.serialize of a fetched response
serialize(url, status, body) ==
    [url |-> url, status_code |-> status, content_hash |-> Sha1(body),
     request_id |-> make_url_key(url)]

\* data.pop("retry_attempt", 1)
RetryAttempt(data) ==
    IF "retry_attempt" \in DOMAIN data THEN data["retry_attempt"] ELSE 1

\* fetch whose retry test admits one attempt too many
fetch_one_more(c, tg, q, data, outcome, body) ==
    LET attempt == RetryAttempt(data)
        data1 == Without(data, "retry_attempt")
        url == Get(data1, "url")
        quiet == [tags |-> tg, queue |-> q, raised |-> FALSE, warned |-> FALSE,
                  emitted |-> FALSE, recursed |-> FALSE]
    IN  CASE outcome = "ok" ->
                LET r == emit(c, tg, q, "pass", NoStage,
                              Update(data1, serialize(url, 200, body)),
                              FALSE, FALSE)
                IN [quiet EXCEPT !.queue = r.queue, !.emitted = r.enq]
          [] outcome = "notok" -> [quiet EXCEPT !.warned = TRUE]
          [] outcome = "error" -> [quiet EXCEPT !.raised = TRUE]
          [] outcome = "httperror" ->
                IF FetchRetry + 1 >= attempt
                THEN LET r == recurse(c, tg, q,
                                      Put(data1, "retry_attempt", attempt + 1),
                                      FALSE)
                     IN [quiet EXCEPT !.queue = r.queue, !.recursed = r.enq]
                ELSE [quiet EXCEPT !.warned = TRUE]

\* operations.fetch.fetch, for a data dict that carries the URL.  outcome:
\* "ok" (status < 400), "notok" (HTTP error status), "httperror"
\* (httpx.HTTPError while sending), "error" (any other exception)
fetch(c, tg, q, data, outcome, body) ==
    LET attempt == RetryAttempt(data)
        data1 == Without(data, "retry_attempt")
        url == Get(data1, "url")
        quiet == [tags |-> tg, queue |-> q, raised |-> FALSE, warned |-> FALSE,
                  emitted |-> FALSE, recursed |-> FALSE]
    IN  CASE outcome = "ok" ->
                LET r == emit(c, tg, q, "pass", NoStage,
                              Update(data1, serialize(url, 200, body)),
                              FALSE, FALSE)
                IN [quiet EXCEPT !.queue = r.queue, !.emitted = r.enq]
          [] outcome = "notok" -> [quiet EXCEPT !.warned = TRUE]
          [] outcome = "error" -> [quiet EXCEPT !.raised = TRUE]
          [] outcome = "httperror" ->
                IF FetchRetry >= attempt
                THEN LET r == recurse(c, tg, q,
                                      Put(data1, "retry_attempt", attempt + 1),
                                      FALSE)
                     IN [quiet EXCEPT !.queue = r.queue, !.recursed = r.enq]
                ELSE [quiet EXCEPT !.warned = TRUE]

\* operations.parse.parse on a document without links: the default store
\* rule matches everything
parse(c, tg, q, data, outcome) ==
    IF outcome = "error"
    THEN [tags |-> tg, queue |-> q, raised |-> TRUE]
    ELSE [tags |-> tg,
          queue |-> emit(c, tg, q, "store", NoStage, data, FALSE, FALSE).queue,
          raised |-> FALSE]

\* ContextHttpResponse.ok of the response rehashed from data
RehashOk(data) ==
    "status_code" \in DOMAIN data /\ data["status_code"] < 400

\* directory without the completion mark
directory_unmarked(c, tg, q, data, outcome) ==
    LET quiet == [tags |-> tg, queue |-> q, raised |-> FALSE, stored |-> FALSE]
    IN  IF ~RehashOk(data) THEN quiet
        ELSE IF Get(data, "content_hash") = None THEN quiet
        ELSE IF outcome = "error" THEN [quiet EXCEPT !.raised = TRUE]
        ELSE [tags |-> tg,
              queue |-> emit(c, tg, q, "pass", NoStage,
                             Put(data, "_file_name", <<"f">>),
                             FALSE, FALSE).queue,
              raised |-> FALSE, stored |-> TRUE]

\* directory writing the completion mark before the file is copied
directory_marks_first(c, tg, q, data, outcome) ==
    LET quiet == [tags |-> tg, queue |-> q, raised |-> FALSE, stored |-> FALSE]
    IN  IF ~RehashOk(data) THEN quiet
        ELSE IF Get(data, "content_hash") = None THEN quiet
        ELSE IF outcome = "error"
        THEN [quiet EXCEPT !.raised = TRUE, !.tags = mark_emit_complete(tg, data)]
        ELSE LET tg1 == mark_emit_complete(tg, data)
             IN [tags |-> tg1,
                 queue |-> emit(c, tg1, q, "pass", NoStage,
                                Put(data, "_file_name", <<"f">>),
                                FALSE, FALSE).queue,
                 raised |-> FALSE, stored |-> TRUE]

\* operations.store.directory
directory(c, tg, q, data, outcome) ==
    LET quiet == [tags |-> tg, queue |-> q, raised |-> FALSE, stored |-> FALSE]
    IN  IF ~RehashOk(data) THEN quiet
        ELSE IF Get(data, "content_hash") = None THEN quiet
        ELSE IF outcome = "error" THEN [quiet EXCEPT !.raised = TRUE]
        ELSE LET tg1 == mark_emit_complete(tg, data)
             IN [tags |-> tg1,
                 queue |-> emit(c, tg1, q, "pass", NoStage,
                                Put(data, "_file_name", <<"f">>),
                                FALSE, FALSE).queue,
                 raised |-> FALSE, stored |-> TRUE]

\* operations.store.lakehouse; archive.store or entities.add_many may raise
lakehouse(c, tg, q, data, outcome) ==
    LET quiet == [tags |-> tg, queue |-> q, raised |-> FALSE, stored |-> FALSE]
    IN  IF ~RehashOk(data) THEN quiet
        ELSE IF Get(data, "content_hash") = None THEN quiet
        ELSE IF outcome = "error" THEN [quiet EXCEPT !.raised = TRUE]
        ELSE LET tg1 == mark_emit_complete(tg, data)
             IN [tags |-> tg1,
                 queue |-> emit(c, tg1, q, "pass", NoStage, data,
                                FALSE, FALSE).queue,
                 raised |-> FALSE, stored |-> TRUE]

\* jobs a stage body added to the queue
Added(q0, q1) == {q1[i] : i \in (Len(q0) + 1)..Len(q1)}

\* the rest of tasks.execute_stage once the stage body has produced `r`
Finish(r, o) ==
    LET ex == execute(ctx, workdirs, r.raised)
        failed == task_fails(job, ex.raises)
        q1 == task_retry(r.queue, job, failed)
    IN /\ Len(q1) <= MaxQueue
       /\ tags' = r.tags
       /\ queue' = q1
       /\ workdirs' = ex.workdirs
       /\ pc' = "idle"
       /\ ctx' = NoCtx
       /\ job' = NoJob
       /\ obs' = o @@ [op |-> "exec", stage |-> ctx.stage,
                       run_id |-> ctx.run_id, job_run |-> job.run_id,
                       incremental |-> ctx.incremental,
                       continue_on_error |-> ctx.continue_on_error,
                       work_path |-> ctx.work_path,
                       raised |-> r.raised, logged |-> ex.logged,
                       propagated |-> ex.raises, failed |-> failed,
                       retried |-> q1 # r.queue,
                       child_runs |-> {j.run_id : j \in Added(queue, r.queue)}]
       /\ UNCHANGED <<minted, runs, asked, httpvars>>

ExecSeed ==
    /\ pc = "ctx" /\ ctx.stage = "init"
    /\ Finish(seed(ctx, tags, queue, job.data), EmptyDict)
    /\ UNCHANGED <<stored, completed>>

Outcomes == {"ok", "error"}

ExecFetch ==
    /\ pc = "ctx" /\ ctx.stage = "fetch"
    /\ \E outcome \in {"ok", "notok", "httperror", "error"}, body \in Bodies :
          LET r == fetch(ctx, tags, queue, job.data, outcome, body)
              url == Get(job.data, "url")
          IN Finish(r, [outcome |-> outcome, url |-> url, hash |-> Sha1(body),
                        attempt |-> RetryAttempt(job.data),
                        emitted |-> r.emitted, recursed |-> r.recursed,
                        warned |-> r.warned,
                        next_attempts |->
                            {RetryAttempt(j.data) : j \in Added(queue, r.queue)},
                        stored_before |->
                            \E e \in stored :
                                /\ e[1] # ctx.run_id
                                /\ e[2] = url /\ e[3] = Sha1(body)])
    /\ UNCHANGED <<stored, completed>>

ExecParse ==
    /\ pc = "ctx" /\ ctx.stage = "parse"
    /\ \E outcome \in Outcomes :
          Finish(parse(ctx, tags, queue, job.data, outcome), [outcome |-> outcome])
    /\ UNCHANGED <<stored, completed>>

ExecStore ==
    /\ pc = "ctx" /\ ctx.stage = "store"
    /\ \E outcome \in Outcomes :
          LET r == directory(ctx, tags, queue, job.data, outcome)
          IN /\ Finish(r, [outcome |-> outcome, done |-> r.stored])
             /\ stored' = IF r.stored
                          THEN stored \cup {<<ctx.run_id, Get(job.data, "url"),
                                              Get(job.data, "content_hash")>>}
                          ELSE stored
    /\ UNCHANGED completed

Init ==
    /\ tags = {}
    /\ queue = <<>>
    /\ pc = "idle"
    /\ ctx = NoCtx
    /\ workdirs = {}
    /\ minted = 0
    /\ runs = EmptyDict
    /\ stored = {}
    /\ completed = {}
    /\ asked = {}
    /\ job = NoJob
    /\ obs = [op |-> "init"]
    /\ HttpIdle

Next ==
    \/ StartRun
    \/ ExecuteStageBegin
    \/ ExecSeed
    \/ ExecFetch
    \/ ExecParse
    \/ ExecStore

Spec == Init /\ [][Next]_vars

\* Crawler.cancel: Crawl.abort_all(self), then self.queue.cancel() drops every
\* job of the crawler that no worker has taken; the tag store is not touched
\* (only Crawler.flush calls flush_tags)
crawler_cancel(q, tg) == [queue |-> <<>>, tags |-> tg]

\* the cancel command, at any moment of a run; a job a worker has already
\* taken runs to its end
CrawlerCancel ==
    /\ runs # EmptyDict
    /\ queue' = crawler_cancel(queue, tags).queue
    /\ tags' = crawler_cancel(queue, tags).tags
    /\ obs' = [op |-> "cancel", pending |-> Len(queue), in_flight |-> pc = "ctx"]
    /\ UNCHANGED <<pc, ctx, workdirs, minted, runs, stored, completed, asked, job, httpvars>>

CancelNext == Next \/ CrawlerCancel

SpecCancel == Init /\ [][CancelNext]_vars

----------------------------------------------------------------------------
(* ContextHttpResponse: lazy request, conditional caching, serialization *)

\* ContextHttpResponse.CACHE_METHODS
CACHE_METHODS == {"GET", "HEAD"}

\* methods a stage sends with (ContextHttp.get / ContextHttp.post)
Methods == {"GET", "POST"}

\* a status code that is None
NoStatus == 0

NoRequest == [method |-> "<None>", url |-> None]

NoResponse == [status |-> NoStatus, url |-> None, headers |-> EmptyDict, body |-> "<none>"]

\* _headers that is None
NoHeaders == ("<None>" :> <<>>)

\* datetime.now(timezone.utc).isoformat() at clock tick n
Stamp(n) == <<"t" \o ToString(n)>>

\* make_url_key(url, method=...)
make_url_key_method(url, method) ==
    join_relpaths(<<(<<method>>), UrlNetloc(url), UrlPath(url), hash_data(url)>>)

\* str.lower() on a header name
Lower(k) == IF k = "ETag" THEN "etag" ELSE k

\* {k.lower(): v for k, v in headers.items()}, also dict(httpx.Headers)
LowerKeys(h) ==
    [k \in {Lower(x) : x \in DOMAIN h} |-> h[CHOOSE x \in DOMAIN h : Lower(x) = k]]

\* ContextHttpResponse.__init__
NewResponse(cache, request) ==
    [cache |-> cache, request |-> request, _response |-> NoResponse,
     _status_code |-> NoStatus, _url |-> None, _request_id |-> None,
     _headers |-> NoHeaders, _encoding |-> None, _content_hash |-> None,
     retrieved_at |-> None]

\* data.get("status_code")
GetStatus(d) == IF "status_code" \in DOMAIN d THEN d["status_code"] ELSE NoStatus

\* data.get("headers", {})
GetHeaders(d) == IF "headers" \in DOMAIN d THEN d["headers"] ELSE EmptyDict

\* apply_data that leaves _url alone
apply_data_without_url(r, data) ==
    [r EXCEPT !._status_code = GetStatus(data),
              !._request_id = Get(data, "request_id"),
              !._encoding = Get(data, "encoding"),
              !._content_hash = Get(data, "content_hash"),
              !.retrieved_at = Get(data, "retrieved_at"),
              !._headers = LowerKeys(GetHeaders(data))]

\* ContextHttpResponse.apply_data
apply_data(r, data) ==
    [r EXCEPT !._status_code = GetStatus(data),
              !._url = Get(data, "url"),
              !._request_id = Get(data, "request_id"),
              !._encoding = Get(data, "encoding"),
              !._content_hash = Get(data, "content_hash"),
              !.retrieved_at = Get(data, "retrieved_at"),
              !._headers = LowerKeys(GetHeaders(data))]

\* ContextHttpResponse.deserialize
deserialize(cache, data) == apply_data(NewResponse(cache, NoRequest), data)

\* ContextHttpResponse.use_cache
use_cache(r) ==
    IF ~r.cache THEN FALSE
    ELSE IF r.request # NoRequest THEN r.request.method \in CACHE_METHODS
    ELSE TRUE

\* ContextHttpResponse.request_id
request_id(r) ==
    IF r._request_id # None THEN r._request_id
    ELSE IF r.request # NoRequest
    THEN make_url_key_method(r.request.url, r.request.method)
    ELSE None

\* ContextHttpResponse.url
url_of(r) ==
    IF r._response # NoResponse THEN r._response.url
    ELSE IF r.request # NoRequest THEN r.request.url
    ELSE r._url

\* Context.get_tag on the metadata tags: the value, or the empty dict for None
get_tag(tg, key) ==
    IF ~Truthy(key) THEN EmptyDict
    ELSE IF make_key(<<key>>, None) \in DOMAIN tg THEN tg[make_key(<<key>>, None)]
    ELSE EmptyDict

\* Context.set_tag with a value
set_tag_value(tg, key, value) ==
    IF ~Truthy(key) THEN tg ELSE Put(tg, make_key(<<key>>, None), value)

\* response, lines 212-213: the cached metadata looked up for the request
existing_of(w) ==
    IF use_cache(w.resp) /\ Truthy(request_id(w.resp))
    THEN get_tag(w.tags, request_id(w.resp))
    ELSE EmptyDict

\* response, line 210: reading the property sends the request
sends_request(r) == r._response = NoResponse /\ r.request # NoRequest

\* response, lines 241-256: the request is sent and answered `ans`; `ex` is
\* the cached metadata found
response_sent(w, ans, ex) ==
    [w EXCEPT !.net.sends = @ + 1,
              !.resp = IF ex # EmptyDict /\ ans.status = 304
                       THEN apply_data(w.resp, ex)
                       ELSE [w.resp EXCEPT !._response = ans]]

\* ContextHttpResponse.response on the world w = [resp, tags, net], the
\* server answering `ans` if the request is sent
response(w, ans) ==
    IF ~sends_request(w.resp) THEN w ELSE response_sent(w, ans, existing_of(w))

\* status_code, line 317, once the response property has been read
status_code_set(w1) ==
    IF w1.resp._status_code = NoStatus /\ w1.resp._response # NoResponse
    THEN [w1 EXCEPT !.resp._status_code = w1.resp._response.status]
    ELSE w1

\* ContextHttpResponse.status_code
status_code(w, ans) ==
    IF w.resp._status_code # NoStatus THEN w
    ELSE status_code_set(response(w, ans))

\* ContextHttpResponse.ok, read from the world status_code left
ok_of(w) == w.resp._status_code # NoStatus /\ w.resp._status_code < 400

\* headers, line 324, once the response property has been read
headers_set(w1) ==
    IF w1.resp._headers = NoHeaders /\ w1.resp._response # NoResponse
    THEN [w1 EXCEPT !.resp._headers = w1.resp._response.headers]
    ELSE w1

\* ContextHttpResponse.headers
headers(w, ans) ==
    IF w.resp._headers # NoHeaders THEN w ELSE headers_set(response(w, ans))

\* the value the headers property returns: `self._headers or {}`
headers_of(w) ==
    IF w.resp._headers = NoHeaders THEN EmptyDict ELSE w.resp._headers

\* serialize, lines 459-467: the dict built from the properties
serialize_data(w2) ==
    [w |-> w2,
     data |-> [request_id |-> request_id(w2.resp),
               status_code |-> w2.resp._status_code,
               url |-> url_of(w2.resp),
               content_hash |-> w2.resp._content_hash,
               encoding |-> w2.resp._encoding,
               headers |-> LowerKeys(headers_of(w2)),
               retrieved_at |-> w2.resp.retrieved_at]]

\* serialize, lines 459-467, once fetch() has been called
serialize_fields(w, ans) == serialize_data(headers(status_code(w, ans), ans))

\* fetch, line 281: set_tag(request_id, serialize())
fetch_tag_put(sd) ==
    [sd.w EXCEPT !.tags = set_tag_value(@, request_id(sd.w.resp), sd.data)]

\* fetch, line 280, once http.cache is known to be on and ok has been read
fetch_tags_ok(w1, ans) ==
    IF ok_of(w1) /\ Truthy(request_id(w1.resp))
    THEN fetch_tag_put(serialize_fields(w1, ans))
    ELSE w1

\* fetch, lines 279-281: the metadata tag
fetch_tags(w, ans) ==
    IF ~w.resp.cache THEN w ELSE fetch_tags_ok(status_code(w, ans), ans)

\* fetch, lines 267-277: stream the body, hash it, write it to the archive
fetch_hashed(w) ==
    [w EXCEPT !.resp._content_hash = Sha1(w.resp._response.body),
              !.net.streams = @ + 1,
              !.net.writes = @ + 1]

\* fetch, lines 283-284: the retrieval timestamp and the return value
fetch_stamped(w3) ==
    [w |-> [w3 EXCEPT !.resp.retrieved_at = Stamp(w3.net.now + 1),
                      !.net.now = @ + 1],
     ret |-> w3.resp._content_hash]

\* fetch, lines 265-285, once the response property has been read
fetch_after(w1, ans) ==
    IF w1.resp._response = NoResponse
    THEN [w |-> w1, ret |-> None]
    ELSE fetch_stamped(fetch_tags(fetch_hashed(w1), ans))

\* fetch without the memo test of its first two lines
response_fetch_unmemoized(w, ans) == fetch_after(response(w, ans), ans)

\* ContextHttpResponse.fetch
response_fetch(w, ans) ==
    IF w.resp._content_hash # None
    THEN [w |-> w, ret |-> w.resp._content_hash]
    ELSE fetch_after(response(w, ans), ans)

\* content_hash, line 365: the value returned
content_hash_read(w1) == [w |-> w1, ret |-> w1.resp._content_hash]

\* ContextHttpResponse.content_hash
content_hash(w, ans) ==
    content_hash_read(IF w.resp._content_hash = None
                      THEN response_fetch(w, ans).w
                      ELSE w)

\* ContextHttpResponse.serialize
response_serialize(w, ans) ==
    serialize_fields(content_hash(response_fetch(w, ans).w, ans).w, ans)

\* the world the response operators act on
World == [resp |-> resp, tags |-> httptags, net |-> net]

SetWorld(w) ==
    /\ resp' = w.resp
    /\ httptags' = w.tags
    /\ net' = w.net

\* the conditional headers of response, lines 216-225, are sent
Conditional(w) ==
    /\ existing_of(w) # EmptyDict
    /\ "etag" \in DOMAIN GetHeaders(existing_of(w))

\* what the server may answer to the request of `w.resp`: the page (possibly
\* after a redirect to U2, with or without an ETag), an error page, or, to a
\* conditional request, 304
Answers(w) ==
    LET u == w.resp.request.url
    IN  {[status |-> 200, url |-> v, headers |-> h, body |-> b] :
            v \in {u, U2}, h \in {EmptyDict, ("ETag" :> <<"e1">>)}, b \in Bodies}
        \cup {[status |-> 404, url |-> u, headers |-> EmptyDict, body |-> "b1"]}
        \cup (IF Conditional(w)
              THEN {[status |-> 304, url |-> v, headers |-> EmptyDict,
                     body |-> "<none>"] : v \in {u, U2}}
              ELSE {})

\* the answers to draw from for a call on the current response: none is
\* needed when the call sends nothing
Drawn(needs) ==
    IF needs /\ sends_request(resp) THEN Answers(World) ELSE {NoResponse}

\* what a caller sees of a response without triggering a request
View(r) ==
    [url |-> url_of(r),
     status_code |-> IF r._status_code # NoStatus THEN r._status_code
                     ELSE r._response.status,
     content_hash |-> r._content_hash,
     headers |-> IF r._headers # NoHeaders THEN LowerKeys(r._headers)
                 ELSE LowerKeys(r._response.headers),
     retrieved_at |-> r.retrieved_at]

\* the observation of one call on the response
Seen(op, w1, ans, ret) ==
    [op |-> op,
     method |-> resp.request.method,
     cache |-> resp.cache,
     hash_before |-> resp._content_hash,
     existing |-> existing_of(World),
     answered |-> IF w1.net.sends > net.sends THEN ans.status ELSE NoStatus,
     sent |-> w1.net.sends - net.sends,
     streamed |-> w1.net.streams - net.streams,
     wrote |-> w1.net.writes - net.writes,
     tagged |-> w1.tags # httptags,
     ret |-> ret,
     view |-> View(w1.resp)]

HttpFrame ==
    UNCHANGED <<tags, queue, pc, ctx, workdirs, minted, runs, stored, completed,
                asked, job, sessions, https, saved, workers, params, monitor, out,
                manager>>

\* one stage context on the fetch stage with settings.http_cache on or off
RespInit ==
    /\ tags = {}
    /\ queue = <<>>
    /\ pc = "http"
    /\ ctx = NewContext("fetch", [run_id |-> R1, incremental |-> TRUE,
                                  continue_on_error |-> FALSE], 0, {}).ctx
    /\ workdirs = {1}
    /\ minted = 0
    /\ runs = EmptyDict
    /\ stored = {}
    /\ completed = {}
    /\ asked = {}
    /\ job = [stage |-> NoStage]
    /\ obs = [op |-> "init"]
    /\ \E cache \in BOOLEAN : resp = NewResponse(cache, NoRequest)
    /\ httptags = EmptyDict
    /\ net = NetZero
    /\ sessions = EmptyDict
    /\ https = EmptyDict
    /\ saved = EmptyDict
    /\ workers = EmptyDict
    /\ params = EmptyDict
    /\ monitor = EmptyDict
    /\ out = <<>>
    /\ manager = EmptyDict

\* ContextHttp.request(method, url, lazy=True)
HttpRequest ==
    /\ pc = "http"
    /\ \E method \in Methods :
          /\ resp' = NewResponse(resp.cache, [method |-> method, url |-> U1])
          /\ obs' = [op |-> "request", method |-> method]
    /\ UNCHANGED <<httptags, net>>
    /\ HttpFrame

\* ContextHttp.rehash(data) on metadata a stage was handed
HttpRehash ==
    /\ pc = "http"
    /\ \E k \in DOMAIN httptags :
          /\ resp' = deserialize(resp.cache, httptags[k])
          /\ obs' = [op |-> "rehash"]
    /\ UNCHANGED <<httptags, net>>
    /\ HttpFrame

\* the effects of a call that left the world w1 and returned ret
RespDone(op, w1, ans, ret) ==
    /\ w1.net.sends <= MaxSends
    /\ SetWorld(w1)
    /\ obs' = Seen(op, w1, ans, ret)

RespReturned(op, r, ans) == RespDone(op, r.w, ans, r.ret)

\* response.fetch()
RespFetch ==
    /\ pc = "http"
    /\ \E ans \in Drawn(resp._content_hash = None) :
          RespReturned("fetch", response_fetch(World, ans), ans)
    /\ HttpFrame

\* response.content_hash
RespContentHash ==
    /\ pc = "http"
    /\ \E ans \in Drawn(resp._content_hash = None) :
          RespReturned("content_hash", content_hash(World, ans), ans)
    /\ HttpFrame

\* response.ok
RespOk ==
    /\ pc = "http"
    /\ \E ans \in Drawn(resp._status_code = NoStatus) :
          RespDone("ok", status_code(World, ans), ans, None)
    /\ HttpFrame

\* the properties of ContextHttpResponse.deserialize(http, sd.data) read one
\* after the other: the world they leave
RoundTripRead(sd) ==
    headers(status_code(
        content_hash([sd.w EXCEPT !.resp = deserialize(resp.cache, sd.data)],
                     NoResponse).w,
        NoResponse), NoResponse)

RoundTripDone(sd, read, ans) ==
    /\ sd.w.net.sends <= MaxSends
    /\ SetWorld(sd.w)
    /\ obs' = Seen("roundtrip", sd.w, ans, sd.data) @@
              [other |-> View(read.resp),
               other_sent |-> read.net.sends - sd.w.net.sends]

RoundTrip(sd, ans) == RoundTripDone(sd, RoundTripRead(sd), ans)

\* data = response.serialize(); other = ContextHttpResponse.deserialize(http, data)
RespRoundTrip ==
    /\ pc = "http"
    /\ \E ans \in Drawn(resp._content_hash = None) :
          RoundTrip(response_serialize(World, ans), ans)
    /\ HttpFrame

RespNext ==
    \/ HttpRequest
    \/ HttpRehash
    \/ RespFetch
    \/ RespContentHash
    \/ RespOk
    \/ RespRoundTrip

SpecResp == RespInit /\ [][RespNext]_vars

----------------------------------------------------------------------------
(* ContextHttp: the session state shared by the stages of a run *)

\* stage contexts alive at the same time
Stages == {"w1", "w2"}

RunIds == {R1, <<"r2">>}

\* cookies the server may set
Cookies == {"a"}

\* settings.user_agent
UserAgent == <<"ua">>

\* httpx.BasicAuth(user, password)._auth_header
BasicHeader == <<"Basic">>

\* no SessionModel (cache miss, or after reset)
NoSession == [cookies |-> {}, headers |-> NoHeaders, auth_header |-> None]

\* no httpx.Client built yet
NoClient == [cookies |-> {}, headers |-> NoHeaders, auth |-> None]

CookieModel(name) == [name |-> name, value |-> "v", domain |-> "h1", path |-> "/"]

\* SessionModel.from_client
from_client(client) ==
    [cookies |-> {CookieModel(c) : c \in client.cookies},
     headers |-> client.headers,
     auth_header |-> IF client.auth # None THEN client.auth ELSE None]

\* SessionModel.apply_to_client
apply_to_client(session, client) ==
    LET h1 == Update(client.headers, session.headers)
    IN [cookies |-> client.cookies \cup {c.name : c \in session.cookies},
        headers |-> IF session.auth_header # None
                    THEN Put(h1, "Authorization", session.auth_header)
                    ELSE h1,
        auth |-> client.auth]

\* _get_session_key that leaves the run id out
session_key_without_run(run_id) == make_key(<<(<<"session">>)>>, None)

\* ContextHttp._get_session_key
_get_session_key(run_id) == make_key(<<(<<"session">>), run_id>>, None)

\* ContextHttp._load_session
_load_session(cache, run_id) ==
    IF _get_session_key(run_id) \in DOMAIN cache
    THEN cache[_get_session_key(run_id)]
    ELSE NoSession

\* ContextHttp.__init__
NewHttp(cache, run_id) ==
    [run_id |-> run_id, _session_state |-> _load_session(cache, run_id),
     _client |-> NoClient]

\* ContextHttp.client: the object with its client built
client_of(h) ==
    IF h._client # NoClient THEN h
    ELSE LET fresh == [cookies |-> {}, headers |-> ("User-Agent" :> UserAgent),
                       auth |-> None]
         IN [h EXCEPT !._client =
                IF h._session_state # NoSession
                THEN apply_to_client(h._session_state, fresh)
                ELSE fresh]

\* ContextHttp.reset
reset(h) == client_of([h EXCEPT !._client = NoClient, !._session_state = NoSession])

\* save that keeps what the stored session has and the client lacks
save_merging(cache, h) ==
    LET key == _get_session_key(h.run_id)
        mine == from_client(client_of(h)._client)
    IN Put(cache, key,
           IF key \in DOMAIN cache
           THEN [mine EXCEPT !.cookies = @ \cup cache[key].cookies]
           ELSE mine)

\* ContextHttp.save: the cache after the call
save(cache, h) ==
    Put(cache, _get_session_key(h.run_id), from_client(client_of(h)._client))

SessionFrame ==
    UNCHANGED <<tags, queue, pc, ctx, workdirs, minted, runs, stored, completed,
                asked, job, resp, httptags, net, workers, params, monitor, out,
                manager>>

SessionInit ==
    /\ tags = {}
    /\ queue = <<>>
    /\ pc = "session"
    /\ ctx = NoCtx
    /\ workdirs = {}
    /\ minted = 0
    /\ runs = EmptyDict
    /\ stored = {}
    /\ completed = {}
    /\ asked = {}
    /\ job = [stage |-> NoStage]
    /\ obs = [op |-> "init"]
    /\ HttpIdle

\* the write of one save, seen from outside
Saved(w, h) ==
    /\ sessions' = save(sessions, h)
    /\ saved' = Put(saved, h.run_id, from_client(h._client))
    /\ obs' = [op |-> "save", stage |-> w, run_id |-> h.run_id]

\* a worker builds the Context of a stage of run `run_id`
HttpNew(w) ==
    /\ pc = "session"
    /\ \E run_id \in RunIds :
          LET h == NewHttp(sessions, run_id)
          IN /\ https' = Put(https, w, h)
             /\ obs' = [op |-> "load", stage |-> w, run_id |-> run_id,
                        loaded |-> h._session_state]
    /\ UNCHANGED <<sessions, saved>>
    /\ SessionFrame

\* operations.fetch.session with or without user and password
HttpSession(w) ==
    /\ pc = "session"
    /\ w \in DOMAIN https
    /\ \E with_auth \in BOOLEAN :
          LET h0 == reset(https[w])
              h == IF with_auth THEN [h0 EXCEPT !._client.auth = BasicHeader] ELSE h0
          IN /\ https' = Put(https, w, h)
             /\ Saved(w, h)
    /\ SessionFrame

\* a request is sent (ContextHttpResponse.response, lines 241-258): the
\* server may set a cookie, then the session is saved
HttpSend(w) ==
    /\ pc = "session"
    /\ w \in DOMAIN https
    /\ \E set \in SUBSET Cookies :
          LET h0 == client_of(https[w])
              h == [h0 EXCEPT !._client.cookies = @ \cup set]
          IN /\ Cardinality(set) <= 1
             /\ https' = Put(https, w, h)
             /\ Saved(w, h)
    /\ SessionFrame

SessionNext == \E w \in Stages : HttpNew(w) \/ HttpSession(w) \/ HttpSend(w)

SpecSession == SessionInit /\ [][SessionNext]_vars

----------------------------------------------------------------------------
(* Two workers handed deliveries of items at the same time *)

Workers == {"w1", "w2"}

\* identifiers of the items delivered
RaceItems == {<<"a">>, <<"aa">>}

\* the data dict of item k
RaceData(k) == [foreign_id |-> k]

\* skip_incremental, lines 263-271: what the test of the tag decides.
\* "no": return False without a write; "hit": return True; "miss": go on to
\* the write
skip_check(c, tg, criteria) ==
    LET key == make_key(criteria, <<"inc">>)
    IN  IF ~c.incremental THEN "no"
        ELSE IF key = None THEN "no"
        ELSE IF check_tag(tg, key) THEN "hit"
        ELSE "miss"

\* the write of skip_incremental as a put-if-absent that reports a tag
\* found in the meantime
skip_write_if_absent(tg, criteria) ==
    [tags |-> set_tag(tg, make_key(criteria, <<"inc">>)),
     ret |-> check_tag(tg, make_key(criteria, <<"inc">>))]

\* skip_incremental, lines 273-274: the write and the return that follow a miss
skip_write(tg, criteria) ==
    [tags |-> set_tag(tg, make_key(criteria, <<"inc">>)), ret |-> FALSE]

RaceFrame ==
    UNCHANGED <<pc, ctx, workdirs, minted, runs, stored, completed, asked, job,
                resp, httptags, net, sessions, https, saved, params, monitor, out,
                manager>>

\* both workers run a Context of the parse stage of one run
RaceInit ==
    /\ tags = {}
    /\ queue = <<>>
    /\ pc = "race"
    /\ \E inc \in BOOLEAN :
          ctx = NewContext("parse", [run_id |-> R1, incremental |-> inc,
                                     continue_on_error |-> FALSE], 0, {}).ctx
    /\ workdirs = {1}
    /\ minted = 0
    /\ runs = EmptyDict
    /\ stored = {}
    /\ completed = {}
    /\ asked = {}
    /\ job = [stage |-> NoStage]
    /\ obs = [op |-> "init"]
    /\ resp = EmptyDict
    /\ httptags = EmptyDict
    /\ net = NetZero
    /\ sessions = EmptyDict
    /\ https = EmptyDict
    /\ saved = EmptyDict
    /\ workers = EmptyDict
    /\ params = EmptyDict
    /\ monitor = EmptyDict
    /\ out = <<>>
    /\ manager = EmptyDict

\* a delivery of item k reaches worker w
RaceDeliver(w) ==
    /\ pc = "race"
    /\ w \notin DOMAIN workers
    /\ \E k \in RaceItems :
          workers' = Put(workers, w, [pc |-> "check", item |-> k, ret |-> FALSE,
                                      late |-> FALSE, through |-> FALSE])
    /\ obs' = [op |-> "deliver", worker |-> w]
    /\ UNCHANGED <<tags, queue>>
    /\ RaceFrame

\* the worker's skip_incremental(item) reaches its check_tag
RaceCheck(w) ==
    /\ pc = "race"
    /\ w \in DOMAIN workers
    /\ workers[w].pc = "check"
    /\ LET d == skip_check(ctx, tags, <<workers[w].item>>)
       IN /\ workers' = Put(workers, w,
                [workers[w] EXCEPT !.pc = CASE d = "miss" -> "write"
                                            [] d = "hit" -> "done"
                                            [] d = "no" -> "emit",
                                   !.ret = (d = "hit")])
          /\ obs' = [op |-> "check", worker |-> w, found |-> d]
    /\ UNCHANGED <<tags, queue>>
    /\ RaceFrame

\* the worker's skip_incremental goes on to set_tag and returns
RaceWrite(w) ==
    /\ pc = "race"
    /\ w \in DOMAIN workers
    /\ workers[w].pc = "write"
    /\ LET r == skip_write(tags, <<workers[w].item>>)
       IN /\ tags' = r.tags
          /\ workers' = Put(workers, w,
                [workers[w] EXCEPT !.pc = IF r.ret THEN "done" ELSE "emit",
                                   !.ret = r.ret,
                                   !.late = check_tag(tags,
                                       make_key(<<workers[w].item>>, <<"inc">>))])
          /\ obs' = [op |-> "write", worker |-> w, ret |-> r.ret,
                     present |-> check_tag(tags,
                                    make_key(<<workers[w].item>>, <<"inc">>))]
    /\ UNCHANGED queue
    /\ RaceFrame

\* skip_incremental returned False: the worker emits the item to the store stage
RaceEmit(w) ==
    /\ pc = "race"
    /\ w \in DOMAIN workers
    /\ workers[w].pc = "emit"
    /\ LET r == emit(ctx, tags, queue, "store", NoStage,
                     RaceData(workers[w].item), FALSE, FALSE)
       IN /\ queue' = r.queue
          /\ workers' = Put(workers, w,
                [workers[w] EXCEPT !.pc = "done", !.through = r.enq])
          /\ obs' = [op |-> "emitted", worker |-> w, enq |-> r.enq]
    /\ UNCHANGED tags
    /\ RaceFrame

\* the store stage finishes the oldest job and marks its emit key complete
RaceStore ==
    /\ pc = "race"
    /\ queue # <<>>
    /\ tags' = mark_emit_complete(tags, Head(queue).data)
    /\ queue' = Tail(queue)
    /\ obs' = [op |-> "stored"]
    /\ UNCHANGED workers
    /\ RaceFrame

RaceNext ==
    \/ \E w \in Workers :
          RaceDeliver(w) \/ RaceCheck(w) \/ RaceWrite(w) \/ RaceEmit(w)
    \/ RaceStore

SpecRace == RaceInit /\ [][RaceNext]_vars

----------------------------------------------------------------------------
(* Target-stage skipping: should_skip_incremental / mark_incremental_complete *)

\* settings.incremental (default)
SettingsIncremental == TRUE

\* no skip_incremental entry in the stage params
NoConfig == [keys |-> <<>>, target |-> "<None>"]

\* skip_incremental configurations: key.data and target (absent: NoStage)
SkipConfigs ==
    {NoConfig,
     [keys |-> <<"doc_id">>, target |-> "store"],
     [keys |-> <<"doc_id">>, target |-> "parse"],
     [keys |-> <<"page_id", "doc_id">>, target |-> NoStage]}

\* items a seed hands to the fetch stage
TargetInputs == {[url |-> U1], [url |-> U1, doc_id |-> <<"d1">>]}

\* should_skip_incremental, lines 69-72: the first configured key present in data
RECURSIVE FirstPresent(_, _)
FirstPresent(keys, data) ==
    IF keys = <<>> THEN None
    ELSE IF Head(keys) \in DOMAIN data THEN data[Head(keys)]
    ELSE FirstPresent(Tail(keys), data)

\* should_skip_incremental, line 93: the tag key for (identifier, target)
target_key(identifier, target) ==
    join_relpaths(<<(<<"skip_incremental">>), identifier, (<<target>>)>>)

\* should_skip_incremental (data keys and the URL fallback).  Result: the
\* return value and the data dict as the call leaves it; the tag store is
\* only read
should_skip_incremental(c, tg, data, config) ==
    LET byKey == FirstPresent(config.keys, data)
        identifier == IF Truthy(byKey) THEN byKey ELSE Get(data, "url")
        target == IF config.target = NoStage THEN "store" ELSE config.target
        key == target_key(identifier, target)
    IN  IF ~SettingsIncremental THEN [ret |-> FALSE, data |-> data]
        ELSE IF config = NoConfig THEN [ret |-> FALSE, data |-> data]
        ELSE IF ~Truthy(identifier) THEN [ret |-> FALSE, data |-> data]
        ELSE [ret |-> check_tag(tg, key),
              data |-> Put(data, "skip_incremental",
                           [target |-> target, key |-> key])]

\* mark_incremental_complete without the test of the stage name
mark_incremental_complete_any_stage(c, tg, data) ==
    IF "skip_incremental" \notin DOMAIN data THEN tg
    ELSE IF Truthy(data["skip_incremental"].key)
    THEN set_tag(tg, data["skip_incremental"].key)
    ELSE tg

\* mark_incremental_complete: the tag store after the call
mark_incremental_complete(c, tg, data) ==
    IF "skip_incremental" \notin DOMAIN data THEN tg
    ELSE IF data["skip_incremental"].target # c.stage THEN tg
    ELSE IF Truthy(data["skip_incremental"].key)
    THEN set_tag(tg, data["skip_incremental"].key)
    ELSE tg

\* operations.fetch.fetch with a skip_incremental configuration (lines 88-90)
fetch_configured(c, tg, q, data, config, outcome, body) ==
    LET sk == should_skip_incremental(c, tg, data, config)
    IN  IF sk.ret
        THEN [tags |-> tg, queue |-> q, raised |-> FALSE, warned |-> FALSE,
              emitted |-> FALSE, recursed |-> FALSE]
        ELSE fetch(c, tg, q, sk.data, outcome, body)

\* operations.store.store with the default operation
store(c, tg, q, data, outcome) == directory(c, tg, q, data, outcome)

\* the Context of a job of the run for `stage`
StageCtx(stage) == [ctx EXCEPT !.stage = stage]

\* the tags of the (identifier, target) family
TargetTags(tg) == {k \in tg : StartsWith(k, CrawlerName \o <<"/", "skip_incremental">>)}

\* the (identifier, target) the skip info of a dict names
SkipInfo(data) ==
    IF "skip_incremental" \in DOMAIN data
    THEN data["skip_incremental"]
    ELSE [target |-> NoStage, key |-> None]

TargetFrame ==
    UNCHANGED <<pc, ctx, workdirs, minted, runs, completed, asked, job,
                resp, httptags, net, sessions, https, saved, workers, monitor, out,
                manager>>

TargetInit ==
    /\ tags = {}
    /\ queue = <<>>
    /\ pc = "target"
    /\ ctx = NewContext("fetch", [run_id |-> R1, incremental |-> TRUE,
                                  continue_on_error |-> FALSE], 0, {}).ctx
    /\ workdirs = {1}
    /\ minted = 0
    /\ runs = EmptyDict
    /\ stored = {}
    /\ completed = {}
    /\ asked = {}
    /\ job = [stage |-> NoStage]
    /\ obs = [op |-> "init"]
    /\ resp = EmptyDict
    /\ httptags = EmptyDict
    /\ net = NetZero
    /\ sessions = EmptyDict
    /\ https = EmptyDict
    /\ saved = EmptyDict
    /\ workers = EmptyDict
    /\ params \in SkipConfigs
    /\ monitor = EmptyDict
    /\ out = <<>>
    /\ manager = EmptyDict

\* the fetch stage, configured with skip_incremental, gets an item
TargetFetch ==
    /\ pc = "target"
    /\ \E data \in TargetInputs, body \in {"b1"} :
          LET sk == should_skip_incremental(StageCtx("fetch"), tags, data, params)
              r == fetch_configured(StageCtx("fetch"), tags, queue, data, params,
                                    "ok", body)
          IN /\ Len(r.queue) <= MaxQueue
             /\ tags' = r.tags
             /\ queue' = r.queue
             /\ obs' = [op |-> "fetch", stage |-> "fetch", skipped |-> sk.ret,
                        info |-> SkipInfo(sk.data),
                        done_before |-> SkipInfo(sk.data).key \in stored,
                        written |-> TargetTags(r.tags) \ TargetTags(tags)]
    /\ UNCHANGED <<stored, params>>
    /\ TargetFrame

\* the parse stage passes the oldest job on to the store stage
TargetParse ==
    /\ pc = "target"
    /\ queue # <<>>
    /\ Head(queue).stage = "parse"
    /\ LET j == Head(queue)
           r == parse(StageCtx("parse"), tags, Tail(queue), j.data, "ok")
       IN /\ tags' = r.tags
          /\ queue' = r.queue
          /\ obs' = [op |-> "parse", stage |-> "parse", info |-> SkipInfo(j.data),
                     written |-> TargetTags(r.tags) \ TargetTags(tags)]
    /\ UNCHANGED <<stored, params>>
    /\ TargetFrame

\* the store stage runs operations.store.store on the oldest job
TargetStore ==
    /\ pc = "target"
    /\ queue # <<>>
    /\ Head(queue).stage = "store"
    /\ \E outcome \in Outcomes :
          LET j == Head(queue)
              r == store(StageCtx("store"), tags, Tail(queue), j.data, outcome)
          IN /\ tags' = r.tags
             /\ queue' = r.queue
             /\ stored' = IF r.stored /\ SkipInfo(j.data).target = "store"
                          THEN stored \cup {SkipInfo(j.data).key}
                          ELSE stored
             /\ obs' = [op |-> "store", stage |-> "store", info |-> SkipInfo(j.data),
                        succeeded |-> r.stored,
                        written |-> TargetTags(r.tags) \ TargetTags(tags)]
    /\ UNCHANGED params
    /\ TargetFrame

\* an operation of the stage the oldest job is for calls
\* mark_incremental_complete(context, data)
TargetMark ==
    /\ pc = "target"
    /\ queue # <<>>
    /\ LET j == Head(queue)
           tg == mark_incremental_complete(StageCtx(j.stage), tags, j.data)
       IN /\ tags' = tg
          /\ obs' = [op |-> "mark", stage |-> j.stage, info |-> SkipInfo(j.data),
                     written |-> TargetTags(tg) \ TargetTags(tags)]
    /\ UNCHANGED <<queue, stored, params>>
    /\ TargetFrame

TargetNext == TargetFetch \/ TargetParse \/ TargetStore \/ TargetMark

SpecTarget == TargetInit /\ [][TargetNext]_vars

----------------------------------------------------------------------------------------------------------------------------------------
(* IdleMonitor: stops the worker once the queue has been idle long enough *)

\* largest idle_timeout tried, in clock ticks
MaxIdleTimeout == 3

\* poll_interval values tried, in clock ticks
PollIntervals == {1, 2}

\* IdleMonitor._idle_since = None
NoTime == -1

\* IdleMonitor.__init__ next to a running worker and a queue; loop.time() has
\* an arbitrary origin and only its distance to _idle_since is read, so the
\* clock is re-based to 0 whenever _idle_since is None
NewMonitor(idle_timeout, poll_interval, stopped) ==
    [idle_timeout |-> idle_timeout, poll_interval |-> poll_interval,
     _idle_since |-> NoTime,
     at |-> "top",            \* position of run(): top, check, sleep, done
     now |-> 0,               \* loop.time()
     stop_event |-> stopped,  \* worker._stop_event.is_set()
     stop_calls |-> 0,        \* calls of worker.stop() made by the monitor
     by_others |-> stopped,   \* the worker was stopped by somebody else
     todo |-> 0, doing |-> 0, \* jobs of the queue by status
     failing |-> FALSE,       \* list_jobs_async raises
     streak |-> 0,            \* the last poll found the queue idle
     cleared |-> FALSE,       \* a poll has cleared a started timer
     elapsed |-> 0]           \* ticks since the idle polls began, up to MaxIdleTimeout

\* IdleMonitor.is_queue_idle; the try/except of run() turns an exception
\* into False
is_queue_idle(m) == ~m.failing /\ m.todo = 0 /\ m.doing = 0

\* run(), lines 93-113, treating a failed queue check as an idle queue
monitor_check_error_is_idle(m) ==
    LET idle == m.failing \/ (m.todo = 0 /\ m.doing = 0)
        since == IF m._idle_since = NoTime THEN m.now ELSE m._idle_since
    IN  IF ~idle THEN [m EXCEPT !._idle_since = NoTime, !.now = 0, !.at = "sleep"]
        ELSE IF m.now - since >= m.idle_timeout
        THEN [m EXCEPT !._idle_since = since, !.stop_calls = @ + 1,
                       !.stop_event = TRUE, !.at = "done"]
        ELSE [m EXCEPT !._idle_since = since, !.at = "sleep"]

\* run(), lines 93-113, starting the timer afresh instead of stopping the
\* worker when the timeout is reached
monitor_check_restarts_timer(m) ==
    LET idle == is_queue_idle(m)
        since == IF m._idle_since = NoTime THEN m.now ELSE m._idle_since
    IN  IF ~idle THEN [m EXCEPT !._idle_since = NoTime, !.now = 0, !.at = "sleep"]
        ELSE IF m.now - since >= m.idle_timeout
        THEN [m EXCEPT !._idle_since = NoTime, !.now = 0, !.at = "sleep"]
        ELSE [m EXCEPT !._idle_since = since, !.at = "sleep"]

\* run(), lines 85-113: from the queue check to the sleep or the break
monitor_check(m) ==
    LET idle == is_queue_idle(m)
        since == IF m._idle_since = NoTime THEN m.now ELSE m._idle_since
    IN  IF ~idle THEN [m EXCEPT !._idle_since = NoTime, !.now = 0, !.at = "sleep"]
        ELSE IF m.now - since >= m.idle_timeout
        THEN [m EXCEPT !._idle_since = since, !.stop_calls = @ + 1,
                       !.stop_event = TRUE, !.at = "done"]
        ELSE [m EXCEPT !._idle_since = since, !.at = "sleep"]

\* run(), lines 81-83: the loop top leaves when the worker is stopped
monitor_top(m) ==
    [m EXCEPT !.at = IF m.stop_event THEN "done" ELSE "check"]

IdleFrame ==
    UNCHANGED <<tags, queue, pc, ctx, workdirs, minted, runs, stored, completed,
                asked, job, resp, httptags, net, sessions, https, saved,
                workers, params, out,
                manager>>

IdleInit ==
    /\ tags = {}
    /\ queue = <<>>
    /\ pc = "monitor"
    /\ ctx = NoCtx
    /\ workdirs = {}
    /\ minted = 0
    /\ runs = EmptyDict
    /\ stored = {}
    /\ completed = {}
    /\ asked = {}
    /\ job = NoJob
    /\ obs = [op |-> "init"]
    /\ resp = EmptyDict
    /\ httptags = EmptyDict
    /\ net = NetZero
    /\ sessions = EmptyDict
    /\ https = EmptyDict
    /\ saved = EmptyDict
    /\ workers = EmptyDict
    /\ params = EmptyDict
    /\ \E t \in 0..MaxIdleTimeout, p \in PollIntervals, stopped \in BOOLEAN :
          monitor = NewMonitor(t, p, stopped)
    /\ out = <<>>
    /\ manager = EmptyDict

\* the loop top: `if self.worker._stop_event.is_set(): break`
MonitorTop ==
    /\ pc = "monitor" /\ monitor.at = "top"
    /\ monitor' = monitor_top(monitor)
    /\ obs' = [op |-> "top", was_stopped |-> monitor.stop_event,
               stop_calls |-> monitor.stop_calls]
    /\ IdleFrame

\* the queue check and what follows it up to the sleep or the break
MonitorCheck ==
    /\ pc = "monitor" /\ monitor.at = "check"
    /\ monitor' = [monitor_check(monitor) EXCEPT
                      !.streak = IF is_queue_idle(monitor) THEN 1 ELSE 0,
                      !.cleared = @ \/ (~is_queue_idle(monitor)
                                        /\ monitor.streak > 0),
                      !.elapsed = IF is_queue_idle(monitor) /\ monitor.streak > 0
                                  THEN @ ELSE 0]
    /\ obs' = [op |-> "poll",
               found_idle |-> monitor.todo = 0 /\ monitor.doing = 0,
               raised |-> monitor.failing,
               stopped |-> monitor_check(monitor).stop_calls > monitor.stop_calls,
               streak |-> IF is_queue_idle(monitor) THEN 1 ELSE 0,
               elapsed |-> IF is_queue_idle(monitor) /\ monitor.streak > 0
                           THEN monitor.elapsed ELSE 0]
    /\ IdleFrame

\* asyncio.sleep(poll_interval) returns: at least poll_interval has passed
MonitorWake ==
    /\ pc = "monitor" /\ monitor.at = "sleep"
    /\ \E late \in {0, 1} :
          monitor' = [monitor EXCEPT
                         !.at = "top",
                         !.now = IF monitor._idle_since = NoTime THEN 0
                                 ELSE @ + monitor.poll_interval + late,
                         !.elapsed = IF monitor.streak = 0 THEN 0
                                     ELSE IF @ + monitor.poll_interval + late
                                                >= MaxIdleTimeout
                                     THEN MaxIdleTimeout
                                     ELSE @ + monitor.poll_interval + late]
    /\ obs' = [op |-> "wake"]
    /\ IdleFrame

\* a job is deferred to the queue
JobDeferred ==
    /\ pc = "monitor" /\ monitor.todo = 0
    /\ monitor' = [monitor EXCEPT !.todo = 1]
    /\ obs' = [op |-> "job"]
    /\ IdleFrame

\* the worker takes the job (while it runs) or finishes it
JobProgress ==
    /\ pc = "monitor" /\ ~monitor.stop_event
    /\ \/ /\ monitor.todo = 1 /\ monitor.doing = 0
          /\ monitor' = [monitor EXCEPT !.todo = 0, !.doing = 1]
       \/ /\ monitor.doing = 1
          /\ monitor' = [monitor EXCEPT !.doing = 0]
    /\ obs' = [op |-> "job"]
    /\ IdleFrame

\* the queue backend stops or starts answering list_jobs_async
BackendFlips ==
    /\ pc = "monitor"
    /\ monitor' = [monitor EXCEPT !.failing = ~@]
    /\ obs' = [op |-> "backend"]
    /\ IdleFrame

\* somebody else (a signal handler) stops the worker
WorkerStopped ==
    /\ pc = "monitor" /\ ~monitor.stop_event
    /\ monitor' = [monitor EXCEPT !.stop_event = TRUE, !.by_others = TRUE]
    /\ obs' = [op |-> "stop"]
    /\ IdleFrame

IdleNext ==
    \/ MonitorTop
    \/ MonitorCheck
    \/ MonitorWake
    \/ JobDeferred
    \/ JobProgress
    \/ BackendFlips
    \/ WorkerStopped

\* the event loop runs the monitor coroutine whenever it can go on
SpecIdle ==
    /\ IdleInit
    /\ [][IdleNext]_vars
    /\ WF_vars(MonitorTop)
    /\ WF_vars(MonitorCheck)
    /\ WF_vars(MonitorWake)

----------------------------------------------------------------------------
(* operations.initializers.sequence: numbers handed to the next stage *)

\* context.params.get("delay") is None
NoDelay == -1

\* params of the sequence stage: start, stop, step, delay, tag
SeqParams ==
    [start : {2, 7}, stop : {1, 11}, step : {3, -3},
     delay : {NoDelay, 0}, tag : {None, <<"t">>}]

\* line 234: "%s:%s" % (prefix, number), or None without a prefix
sequence_tag(p, number) ==
    IF p.tag = None THEN None ELSE p.tag \o <<":", ToString(number)>>

\* lines 236-238: the number is emitted unless its tag exists; emit works on
\* the dict the loop keeps using
sequence_emitted(c, st, r) ==
    [st EXCEPT !.queue = r.queue, !.data = r.data, !.visited = Append(@, st.number)]

sequence_emit(c, p, st) ==
    IF sequence_tag(p, st.number) = None
       \/ ~check_tag(st.tags, sequence_tag(p, st.number))
    THEN sequence_emitted(c, st,
            emit(c, st.tags, st.queue, "pass", NoStage,
                 Put(st.data, "number", st.number), FALSE, FALSE))
    ELSE [st EXCEPT !.visited = Append(@, st.number)]

\* lines 240-241 with the set_tag call left out
sequence_mark_nothing(p, st) == st

\* lines 240-241: the number is tagged, emitted or not
sequence_mark(p, st) ==
    IF sequence_tag(p, st.number) = None THEN st
    ELSE [st EXCEPT !.tags = set_tag(@, sequence_tag(p, st.number))]

\* lines 244-247: the loop is left once the next number has reached stop
sequence_done(p, n) ==
    \/ p.step > 0 /\ n >= p.stop
    \/ p.step < 0 /\ n <= p.stop

\* lines 249-252: recursive mode hands the next number to the stage itself
sequence_recursed(st, n, r) ==
    [st EXCEPT !.number = n, !.queue = r.queue, !.data = r.data]

\* lines 249-252 handing on the number after the next one
sequence_recurse_skips_one(c, p, st, n) ==
    sequence_recursed(st, n,
        recurse(c, st.tags, st.queue, Put(st.data, "number", n + p.step), FALSE))

sequence_recurse(c, p, st, n) ==
    sequence_recursed(st, n,
        recurse(c, st.tags, st.queue, Put(st.data, "number", n), FALSE))

RECURSIVE sequence_loop(_, _, _)

\* lines 243-252: the next number, and whether the loop goes on
sequence_next(c, p, st, n) ==
    IF sequence_done(p, n) THEN [st EXCEPT !.number = n]
    ELSE IF p.delay # NoDelay THEN sequence_recurse(c, p, st, n)
    ELSE sequence_loop(c, p, [st EXCEPT !.number = n])

sequence_step(c, p, st) == sequence_next(c, p, st, st.number + p.step)

\* lines 233-252: one turn of `while True`
sequence_loop(c, p, st) ==
    sequence_step(c, p, sequence_mark(p, sequence_emit(c, p, st)))

\* operations.initializers.sequence.  Result: the tag store, the queue and
\* the numbers the loop visited
sequence(c, tg, q, data, p) ==
    sequence_loop(c, p,
        [number |-> IF "number" \in DOMAIN data THEN data.number ELSE p.start,
         data |-> data, tags |-> tg, queue |-> q, visited |-> <<>>])

\* the numbers of the jobs in q for `stage`, in queue order
RECURSIVE NumbersFor(_, _)
NumbersFor(q, stage) ==
    IF q = <<>> THEN <<>>
    ELSE IF Head(q).stage = stage
    THEN <<Head(q).data.number>> \o NumbersFor(Tail(q), stage)
    ELSE NumbersFor(Tail(q), stage)

SeqFrame ==
    UNCHANGED <<pc, ctx, workdirs, runs, stored, completed, asked, job,
                resp, httptags, net, sessions, https, saved, workers, params,
                monitor, manager>>

\* a crawler whose init stage is the sequence operation (handler pass: fetch)
SeqInit ==
    /\ tags = {}
    /\ queue = <<>>
    /\ pc = "sequence"
    /\ \E inc \in BOOLEAN :
          ctx = NewContext("init", [run_id |-> R1, incremental |-> inc,
                                    continue_on_error |-> FALSE], 0, {}).ctx
    /\ workdirs = {1}
    /\ minted = 0
    /\ runs = EmptyDict
    /\ stored = {}
    /\ completed = {}
    /\ asked = {}
    /\ job = NoJob
    /\ obs = [op |-> "init"]
    /\ resp = EmptyDict
    /\ httptags = EmptyDict
    /\ net = NetZero
    /\ sessions = EmptyDict
    /\ https = EmptyDict
    /\ saved = EmptyDict
    /\ workers = EmptyDict
    /\ params \in SeqParams
    /\ monitor = EmptyDict
    /\ out = <<>>
    /\ manager = EmptyDict

\* Crawler.run once the previous run has finished: the init stage is queued
\* with empty data
SeqRun ==
    /\ pc = "sequence"
    /\ queue = <<>>
    /\ minted < MaxRuns
    /\ minted' = minted + 1
    /\ queue' = defer_stage(<<>>, "init", ctx.run_id, EmptyDict,
                            ctx.incremental, ctx.continue_on_error)
    /\ obs' = [op |-> "run"]
    /\ UNCHANGED <<tags, out>>
    /\ SeqFrame

\* a worker runs the oldest job of the sequence stage; the jobs it emitted
\* for the fetch stage are taken downstream in order
SeqExec ==
    /\ pc = "sequence"
    /\ queue # <<>>
    /\ LET r == sequence(ctx, tags, <<>>, Head(queue).data, params)
       IN /\ tags' = r.tags
          /\ queue' = Tail(queue) \o SelectSeq(r.queue, LAMBDA j : j.stage = "init")
          /\ out' = out \o NumbersFor(r.queue, "fetch")
          /\ obs' = [op |-> "sequence",
                     first |-> "number" \notin DOMAIN Head(queue).data,
                     emitted |-> NumbersFor(r.queue, "fetch"),
                     visited |-> r.visited,
                     recursed |-> NumbersFor(r.queue, "init"),
                     run_out |-> IF "number" \in DOMAIN Head(queue).data
                                 THEN obs.run_out \o NumbersFor(r.queue, "fetch")
                                 ELSE NumbersFor(r.queue, "fetch")]
    /\ UNCHANGED minted
    /\ SeqFrame

SeqNext == SeqRun \/ SeqExec

SpecSeq == SeqInit /\ [][SeqNext]_vars

----------------------------------------------------------------------------
(* operations.initializers.dates: dates handed to the next stage *)

\* largest `days` parameter tried
MaxDays == 3

\* pairs of date strings in the format "%d-%m-%Y", <<day, month, year>>:
\* within a month and across the turn of the year
DatePairs ==
    ({<<10, 12, 2012>>, <<20, 12, 2012>>} \X {<<10, 12, 2012>>, <<20, 12, 2012>>})
    \cup ({<<30, 12, 2012>>, <<2, 1, 2013>>} \X {<<30, 12, 2012>>, <<2, 1, 2013>>})

\* params of the dates stage; the step is given in days and weeks
DateParams ==
    {[format |-> "%d-%m-%Y", begin |-> be[1], end |-> be[2],
      days |-> d, weeks |-> w] :
        be \in DatePairs, d \in 0..MaxDays, w \in {0, 1}}

\* datetime.strptime(s, "%d-%m-%Y"): the day counted from 30-11-2012
strptime(s) == IF s[2] = 12 THEN s[1] ELSE 31 + s[1]

\* datetime.strftime("%d-%m-%Y")
strftime(n) == IF n <= 31 THEN <<n, 12, 2012>> ELSE <<n - 31, 1, 2013>>

\* datetime.isoformat(): year, month, day, midnight
isoformat(n) ==
    IF n <= 31 THEN <<2012, 12, n, "T00:00:00">> ELSE <<2013, 1, n - 31, "T00:00:00">>

\* relativedelta(days=days, weeks=weeks), in days
relativedelta(p) == p.days + 7 * p.weeks

\* lines 346-352 and 358-364: the emit of one date
dates_emit(c, tg, q, data, current) ==
    emit(c, tg, q, "pass", NoStage,
         Put(Put(data, "date", strftime(current)), "date_iso", isoformat(current)),
         FALSE, FALSE).queue

\* lines 343-353: from begin down to end
RECURSIVE dates_backwards(_, _, _, _, _, _, _)
dates_backwards(c, tg, q, data, current, end, delta) ==
    IF current >= end
    THEN dates_backwards(c, tg, dates_emit(c, tg, q, data, current), data,
                         current - delta, end, delta)
    ELSE q

\* lines 355-365 with the loop test `current < end`
RECURSIVE dates_forwards_end_exclusive(_, _, _, _, _, _, _)
dates_forwards_end_exclusive(c, tg, q, data, current, end, delta) ==
    IF current < end
    THEN dates_forwards_end_exclusive(c, tg, dates_emit(c, tg, q, data, current),
                                      data, current + delta, end, delta)
    ELSE q

\* lines 355-365: from begin up to end
RECURSIVE dates_forwards(_, _, _, _, _, _, _)
dates_forwards(c, tg, q, data, current, end, delta) ==
    IF current <= end
    THEN dates_forwards(c, tg, dates_emit(c, tg, q, data, current), data,
                        current + delta, end, delta)
    ELSE q

\* operations.initializers.dates: the queue after the call
dates(c, tg, q, data, p) ==
    IF p.days = 0 /\ p.weeks = 0 THEN q
    ELSE IF strptime(p.begin) >= strptime(p.end)
    THEN dates_backwards(c, tg, q, data, strptime(p.begin), strptime(p.end),
                         relativedelta(p))
    ELSE dates_forwards(c, tg, q, data, strptime(p.begin), strptime(p.end),
                        relativedelta(p))

\* the date strings of the jobs in q, in queue order
DatesOf(q) == [i \in 1..Len(q) |-> q[i].data.date]

\* a crawler whose init stage is the dates operation (handler pass: fetch)
DatesInit ==
    /\ tags = {}
    /\ queue = <<>>
    /\ pc = "dates"
    /\ \E inc \in BOOLEAN :
          ctx = NewContext("init", [run_id |-> R1, incremental |-> inc,
                                    continue_on_error |-> FALSE], 0, {}).ctx
    /\ workdirs = {1}
    /\ minted = 0
    /\ runs = EmptyDict
    /\ stored = {}
    /\ completed = {}
    /\ asked = {}
    /\ job = NoJob
    /\ obs = [op |-> "init"]
    /\ resp = EmptyDict
    /\ httptags = EmptyDict
    /\ net = NetZero
    /\ sessions = EmptyDict
    /\ https = EmptyDict
    /\ saved = EmptyDict
    /\ workers = EmptyDict
    /\ params \in DateParams
    /\ monitor = EmptyDict
    /\ out = <<>>
    /\ manager = EmptyDict

\* a worker runs the job of the dates stage of a run; the jobs it emitted are
\* taken downstream in order
DatesExec ==
    /\ pc = "dates"
    /\ minted < MaxRuns
    /\ minted' = minted + 1
    /\ out' = out \o DatesOf(dates(ctx, tags, <<>>, EmptyDict, params))
    /\ obs' = [op |-> "dates",
               emitted |-> DatesOf(dates(ctx, tags, <<>>, EmptyDict, params)),
               iso |-> [i \in 1..Len(dates(ctx, tags, <<>>, EmptyDict, params)) |->
                           dates(ctx, tags, <<>>, EmptyDict, params)[i].data.date_iso]]
    /\ UNCHANGED <<tags, queue>>
    /\ SeqFrame

DatesNext == DatesExec

SpecDates == DatesInit /\ [][DatesNext]_vars

----------------------------------------------------------------------------
(* helpers.rule: parsing rule specifications and applying rules *)

\* Python values of a rule specification, tagged with their type
Str(v) == [t |-> "str", v |-> v]

List(v) == [t |-> "list", v |-> v]

\* a dict as the sequence of its items <<key, value>>
Dict(v) == [t |-> "dict", v |-> v]

\* a dict with the one item key: value
Dict1(key, value) == Dict(<<(<<key, value>>)>>)

\* RULE_TYPES
RULE_TYPES ==
    {"or", "any", "and", "all", "not", "match_all", "domain", "mime_type",
     "mime_group", "pattern", "xpath"}

\* memorious.logic.mime.GROUPS
GROUPS == [documents |-> {<<"application", "/", "pdf">>}]

\* str.lower()
LowerCase(s) == [i \in 1..Len(s) |-> IF s[i] = "A" THEN "a" ELSE s[i]]

\* str.strip(".")
RECURSIVE StripDots(_)
StripDots(s) ==
    IF s # <<>> /\ Head(s) = "." THEN StripDots(Tail(s))
    ELSE IF s # <<>> /\ s[Len(s)] = "." THEN StripDots(SubSeq(s, 1, Len(s) - 1))
    ELSE s

EndsWith(s, p) == Len(s) >= Len(p) /\ SubSeq(s, Len(s) - Len(p) + 1, Len(s)) = p

NoRule == [kind |-> "<None>"]

\* parse_rule raised RuleParsingException
RuleRaised == [ok |-> FALSE, rule |-> NoRule]

RuleParsed(rule) == [ok |-> TRUE, rule |-> rule]

\* lines 332-334: rule_cls(**{rule_name: value}); pydantic takes a str only,
\* clean_domain refuses the empty one, re.compile the unbalanced one;
\* normalize_mimetype lower-cases a well-formed type
simple_rule(rule_name, value) ==
    IF value.t # "str" THEN RuleRaised
    ELSE IF rule_name = "domain"
    THEN IF value.v = <<>> THEN RuleRaised
         ELSE RuleParsed([kind |-> "domain",
                          domain |-> LowerCase(StripDots(value.v))])
    ELSE IF rule_name = "mime_type"
    THEN RuleParsed([kind |-> "mime_type", _normalized |-> LowerCase(value.v)])
    ELSE IF rule_name = "mime_group"
    THEN RuleParsed([kind |-> "mime_group", mime_group |-> value.v])
    ELSE IF rule_name = "pattern"
    THEN IF value.v = <<"(">> THEN RuleRaised
         ELSE RuleParsed([kind |-> "pattern", pattern |-> value.v])
    ELSE RuleParsed([kind |-> "xpath", xpath |-> value.v])

\* lines 329-330: MatchAllRule(match_all=value or {})
match_all_rule(value) ==
    IF value.v = <<>> \/ value.t = "dict"
    THEN RuleParsed([kind |-> "match_all"])
    ELSE RuleRaised

\* lines 295-305 without the test for several keys
rule_shape_error_first_key(spec) ==
    \/ spec.t # "dict"
    \/ Len(spec.v) = 0
    \/ spec.v[1][1] \notin RULE_TYPES

\* lines 295-305: the spec is refused before its value is looked at
rule_shape_error(spec) ==
    \/ spec.t # "dict"
    \/ Len(spec.v) > 1
    \/ Len(spec.v) = 0
    \/ spec.v[1][1] \notin RULE_TYPES

\* lines 314-315 and 320-321: the list rule built from its parsed children
list_rule(kind, children) ==
    IF \E i \in 1..Len(children) : ~children[i].ok THEN RuleRaised
    ELSE IF kind = "or"
    THEN RuleParsed([kind |-> "or",
                     any_of |-> [i \in 1..Len(children) |-> children[i].rule]])
    ELSE RuleParsed([kind |-> "and",
                     all_of |-> [i \in 1..Len(children) |-> children[i].rule]])

\* lines 326-327: the not rule built from its parsed child
not_rule(child) ==
    IF ~child.ok THEN RuleRaised
    ELSE RuleParsed([kind |-> "not", negate |-> child.rule])

\* parse_rule.  Result: whether a rule was returned (ok) or
\* RuleParsingException raised, and the rule
RECURSIVE parse_rule(_)
parse_rule(spec) ==
    IF rule_shape_error(spec) THEN RuleRaised
    ELSE IF spec.v[1][1] \in {"or", "any"}
    THEN IF spec.v[1][2].t # "list" THEN RuleRaised
         ELSE list_rule("or", [i \in 1..Len(spec.v[1][2].v) |->
                                   parse_rule(spec.v[1][2].v[i])])
    ELSE IF spec.v[1][1] \in {"and", "all"}
    THEN IF spec.v[1][2].t # "list" THEN RuleRaised
         ELSE list_rule("and", [i \in 1..Len(spec.v[1][2].v) |->
                                    parse_rule(spec.v[1][2].v[i])])
    ELSE IF spec.v[1][1] = "not"
    THEN IF spec.v[1][2].t # "dict" THEN RuleRaised
         ELSE not_rule(parse_rule(spec.v[1][2]))
    ELSE IF spec.v[1][1] = "match_all" THEN match_all_rule(spec.v[1][2])
    ELSE simple_rule(spec.v[1][1], spec.v[1][2])

\* DomainRule.apply; response.hostname is urlparse(res.url).hostname
domain_apply(rule, res) ==
    /\ res.url # <<>>
    /\ res.hostname # None
    /\ \/ LowerCase(StripDots(res.hostname)) = rule.domain
       \/ EndsWith(LowerCase(StripDots(res.hostname)), <<".">> \o rule.domain)

\* MimeGroupRule.apply
mime_group_apply(rule, res) ==
    LET ct == IF res.content_type = None THEN <<>> ELSE res.content_type
    IN \/ StartsWith(ct, rule.mime_group \o <<"/">>)
       \/ /\ Len(rule.mime_group) = 1
          /\ rule.mime_group[1] \in DOMAIN GROUPS
          /\ ct \in GROUPS[rule.mime_group[1]]

\* PatternRule.apply for a pattern without metacharacters: re.match anchors
\* at the start and re.I ignores case
pattern_apply(rule, res) ==
    /\ res.url # <<>>
    /\ StartsWith(LowerCase(res.url), LowerCase(rule.pattern))

\* XpathRule.apply for the expression //name: the parsed body has such an element
xpath_apply(rule, res) ==
    /\ res.text # {}
    /\ \E e \in res.text : <<e>> = rule.xpath

\* all() looking at the first child only
all_first(results) == results = <<>> \/ results[1]

\* AndRule.apply: all(...)
all(results) == \A i \in 1..Len(results) : results[i]

\* OrRule.apply: any(...)
any(results) == \E i \in 1..Len(results) : results[i]

\* BaseRule.apply of the parsed rule classes
RECURSIVE apply(_, _)
apply(rule, res) ==
    IF rule.kind = "or"
    THEN any([i \in 1..Len(rule.any_of) |-> apply(rule.any_of[i], res)])
    ELSE IF rule.kind = "and"
    THEN all([i \in 1..Len(rule.all_of) |-> apply(rule.all_of[i], res)])
    ELSE IF rule.kind = "not" THEN ~apply(rule.negate, res)
    ELSE IF rule.kind = "match_all" THEN TRUE
    ELSE IF rule.kind = "domain" THEN domain_apply(rule, res)
    ELSE IF rule.kind = "mime_type"
    THEN res.content_type = rule._normalized
    ELSE IF rule.kind = "mime_group" THEN mime_group_apply(rule, res)
    ELSE IF rule.kind = "pattern" THEN pattern_apply(rule, res)
    ELSE xpath_apply(rule, res)

\* rule specifications that parse
ValidLeaves ==
    {Dict1("domain", Str(<<"a", ".", "org">>)),
     Dict1("domain", Str(<<"A", ".", "org", ".">>)),
     Dict1("mime_group", Str(<<"image">>)),
     Dict1("mime_group", Str(<<"documents">>)),
     Dict1("mime_type", Str(<<"application", "/", "pdf">>)),
     Dict1("match_all", Dict(<<>>)),
     Dict1("pattern", Str(<<"http://", "a">>)),
     Dict1("xpath", Str(<<"div">>))}

\* specifications that are no rule
BadSpecs ==
    {Str(<<"x">>),
     List(<<>>),
     Dict(<<>>),
     Dict(<<(<<"domain", Str(<<"a", ".", "org">>)>>),
            (<<"mime_group", Str(<<"image">>)>>)>>),
     Dict1("host", Str(<<"a", ".", "org">>)),
     Dict1("and", Dict1("match_all", Dict(<<>>))),
     Dict1("or", Str(<<"x">>)),
     Dict1("not", List(<<Dict1("match_all", Dict(<<>>))>>)),
     Dict1("not", Str(<<"x">>)),
     Dict1("domain", Str(<<>>)),
     Dict1("domain", List(<<>>)),
     Dict1("pattern", Str(<<"(">>))}

\* the children tried inside list rules
ListChildren ==
    {Dict1("domain", Str(<<"a", ".", "org">>)),
     Dict1("mime_group", Str(<<"image">>)),
     Dict1("match_all", Dict(<<>>)),
     Str(<<"x">>),
     Dict(<<>>),
     Dict1("host", Str(<<"a", ".", "org">>))}

\* specifications one level deep
SpecsDepth1 ==
    ValidLeaves \cup BadSpecs
    \cup {Dict1(k, List(l)) :
            k \in {"or", "and", "any", "all"},
            l \in {<<>>} \cup {<<x>> : x \in ListChildren}
                  \cup {<<x, y>> : x \in ListChildren, y \in ListChildren}}
    \cup {Dict1("not", x) : x \in ValidLeaves \cup BadSpecs}

\* specifications up to two levels deep
RuleSpecs ==
    SpecsDepth1
    \cup {Dict1("not", x) : x \in SpecsDepth1}
    \cup {Dict1("and", List(<<Dict1("match_all", Dict(<<>>)), x>>)) : x \in SpecsDepth1}

\* the second rule of a pair
OtherSpecs ==
    {Dict1("mime_group", Str(<<"image">>)),
     Dict1("not", Dict1("domain", Str(<<"a", ".", "org">>))),
     Dict1("host", Str(<<"a", ".", "org">>))}

\* what the rules read of a res: url, its hostname, content_type and
\* the elements of the parsed body
RuleResponse(hostname, content_type, text) ==
    [url |-> IF hostname = None THEN <<>> ELSE <<"http://">> \o hostname \o <<"/">>,
     hostname |-> hostname, content_type |-> content_type, text |-> text]

RuleResponses ==
    {RuleResponse(h, ct, IF ct = <<"text", "/", "html">> THEN {"div"} ELSE {}) :
        h \in {None, <<"a", ".", "org">>, <<"sub", ".", "A", ".", "org">>,
               <<"xa", ".", "org">>},
        ct \in {None, <<"image", "/", "png">>, <<"text", "/", "html">>,
                <<"application", "/", "pdf">>}}

RuleInit ==
    /\ tags = {}
    /\ queue = <<>>
    /\ pc = "rule"
    /\ ctx = NoCtx
    /\ workdirs = {}
    /\ minted = 0
    /\ runs = EmptyDict
    /\ stored = {}
    /\ completed = {}
    /\ asked = {}
    /\ job = NoJob
    /\ obs = [op |-> "init"]
    /\ resp \in RuleResponses
    /\ httptags = EmptyDict
    /\ net = NetZero
    /\ sessions = EmptyDict
    /\ https = EmptyDict
    /\ saved = EmptyDict
    /\ workers = EmptyDict
    /\ params \in [a : RuleSpecs, b : OtherSpecs]
    /\ monitor = EmptyDict
    /\ out = <<>>
    /\ manager = EmptyDict

RuleFrame ==
    UNCHANGED <<tags, queue, pc, ctx, workdirs, minted, runs, stored, completed,
                asked, job, resp, httptags, net, sessions, https, saved,
                workers, params, monitor, out,
                manager>>

\* parse_rule(spec)
RuleParse ==
    /\ pc = "rule"
    /\ obs' = [op |-> "parse", returned |-> parse_rule(params.a).ok]
    /\ RuleFrame

\* what parse_rule(spec).apply(res) gives: parsed or not, and the boolean
parse_and_apply(parsed, res) ==
    [ok |-> parsed.ok, ret |-> parsed.ok /\ apply(parsed.rule, res)]

\* the rules not(A or B) and (not A) and (not B), A and B alone, are parsed
\* and applied to the res
RuleApply ==
    /\ pc = "rule"
    /\ obs' = [op |-> "apply",
               a |-> parse_and_apply(parse_rule(params.a), resp),
               b |-> parse_and_apply(parse_rule(params.b), resp),
               not_or |-> parse_and_apply(
                   parse_rule(Dict1("not",
                       Dict1("or", List(<<params.a, params.b>>)))), resp),
               and_not |-> parse_and_apply(
                   parse_rule(Dict1("and",
                       List(<<Dict1("not", params.a), Dict1("not", params.b)>>))),
                   resp)]
    /\ RuleFrame

RuleNext == RuleParse \/ RuleApply

SpecRule == RuleInit /\ [][RuleNext]_vars

----------------------------------------------------------------------------
(* CrawlerManager.load_path / Crawler.__init__: loading configurations *)

MaxFiles == 2           \* YAML and other files found under the config path

\* a YAML scalar that is no string
Float(v) == [t |-> "float", v |-> v]

\* a key the YAML mapping does not have, or has without a value
PyNone == [t |-> "NoneType", v |-> <<>>]

\* the characters of the class [A-Za-z0-9_-] that the names are drawn from
NameChars == {"a", "b", "s", "_", "-"}

\* the name without the one trailing newline that `$` lets through
before_dollar(name) ==
    IF name # <<>> /\ name[Len(name)] = "\n"
    THEN SubSeq(name, 1, Len(name) - 1)
    ELSE name

\* re.match(r"^[A-Za-z0-9_-]+$", name) for a str
re_match_name(name) ==
    /\ before_dollar(name) # <<>>
    /\ \A i \in 1..Len(before_dollar(name)) : before_dollar(name)[i] \in NameChars

\* Crawler.validate_name / CrawlerStage._validate_name: the exception raised
\* ("None" when the name passes); re.match refuses what is no str
validate_name(name) ==
    IF name.t # "str" THEN "TypeError"
    ELSE IF ~re_match_name(name.v) THEN "ValueError"
    ELSE "None"

\* lines 57-58: the stages are built in the order of the mapping; the first
\* name that is refused ends the construction
RECURSIVE stages_raised(_)
stages_raised(names) ==
    IF names = <<>> THEN "None"
    ELSE IF validate_name(Head(names)) # "None" THEN validate_name(Head(names))
    ELSE stages_raised(Tail(names))

\* line 45: self.config.get("name") or os.path.basename(source_file)
crawler_name(file) ==
    IF file.name = PyNone \/ file.name.v = <<>> THEN Str(file.basename)
    ELSE file.name

\* Crawler(manager, source_file): the crawler, or the exception raised
NewCrawler(file) ==
    [raised |-> IF validate_name(crawler_name(file)) # "None"
                THEN validate_name(crawler_name(file))
                ELSE stages_raised(file.pipeline),
     name |-> crawler_name(file),
     source_file |-> file.path]

\* fnmatch(file_name, "*.yaml") or fnmatch(file_name, "*.yml")
is_yaml(file_name) ==
    EndsWith(file_name, <<".yaml">>) \/ EndsWith(file_name, <<".yml">>)

\* lines 24-34: the loop over the files; ValueError is caught, any other
\* exception leaves load_path
RECURSIVE load_files(_, _)
load_files(files, crawlers) ==
    IF files = <<>> THEN [crawlers |-> crawlers, raised |-> "None"]
    ELSE IF ~is_yaml(Head(files).basename)
    THEN load_files(Tail(files), crawlers)
    ELSE IF NewCrawler(Head(files)).raised = "ValueError"
    THEN load_files(Tail(files), crawlers)
    ELSE IF NewCrawler(Head(files)).raised # "None"
    THEN [crawlers |-> crawlers, raised |-> NewCrawler(Head(files)).raised]
    ELSE load_files(Tail(files),
                    Put(crawlers, NewCrawler(Head(files)).name,
                        NewCrawler(Head(files))))

\* CrawlerManager.load_path
load_path(mgr) ==
    IF ~mgr.is_dir THEN [crawlers |-> mgr.crawlers, raised |-> "None"]
    ELSE load_files(mgr.files, mgr.crawlers)

\* CrawlerManager.load_crawler(path) for a file that exists
load_crawler(mgr, file) ==
    IF ~is_yaml(file.basename) THEN [crawlers |-> mgr.crawlers, raised |-> "None"]
    ELSE IF NewCrawler(file).raised = "ValueError"
    THEN [crawlers |-> mgr.crawlers, raised |-> "None"]
    ELSE IF NewCrawler(file).raised # "None"
    THEN [crawlers |-> mgr.crawlers, raised |-> NewCrawler(file).raised]
    ELSE [crawlers |-> Put(mgr.crawlers, NewCrawler(file).name, NewCrawler(file)),
          raised |-> "None"]

\* the `name` values of the configurations
ConfigNames ==
    {PyNone, Str(<<"a">>), Str(<<"b", "-", "a">>), Str(<<"a", "\n">>),
     Str(<<"a", ".", "b">>), Float(<<"1", ".", "5">>)}

\* the keys of the `pipeline` mappings, in order
ConfigPipelines ==
    {<<Str(<<"s">>)>>,
     <<Str(<<"s">>), Str(<<"s", " ", "b">>)>>,
     <<Str(<<"s">>), Str(<<"s", "\n">>)>>,
     <<Str(<<"s">>), Float(<<"1", ".", "5">>)>>}

\* the files a configuration directory may hold
ConfigFiles ==
    {[basename |-> <<"c", ".yaml">>, name |-> n, pipeline |-> p] :
        n \in ConfigNames, p \in ConfigPipelines}
    \cup {[basename |-> <<"c", ".txt">>, name |-> Str(<<"a", ".", "b">>),
           pipeline |-> <<Str(<<"s">>)>>],
          [basename |-> <<"c", ".yml">>, name |-> Str(<<"b">>),
           pipeline |-> <<>>]}

\* file i of the directory, under its path
FileAt(fs, i) ==
    [basename |-> fs[i].basename, name |-> fs[i].name,
     pipeline |-> fs[i].pipeline, path |-> i]

ManagerInit ==
    /\ tags = {}
    /\ queue = <<>>
    /\ pc = "manager"
    /\ ctx = NoCtx
    /\ workdirs = {}
    /\ minted = 0
    /\ runs = EmptyDict
    /\ stored = {}
    /\ completed = {}
    /\ asked = {}
    /\ job = NoJob
    /\ obs = [op |-> "init"]
    /\ resp = EmptyDict
    /\ httptags = EmptyDict
    /\ net = NetZero
    /\ sessions = EmptyDict
    /\ https = EmptyDict
    /\ saved = EmptyDict
    /\ workers = EmptyDict
    /\ params = EmptyDict
    /\ monitor = EmptyDict
    /\ out = <<>>
    /\ \E fs \in [1..MaxFiles -> ConfigFiles], d \in BOOLEAN :
          manager = [crawlers |-> EmptyDict, is_dir |-> d,
                     files |-> [i \in 1..MaxFiles |-> FileAt(fs, i)]]

ManagerFrame ==
    UNCHANGED <<tags, queue, pc, ctx, workdirs, minted, runs, stored, completed,
                asked, job, resp, httptags, net, sessions, https, saved,
                workers, params, monitor, out>>

\* manager.load_path(path)
LoadPath ==
    /\ pc = "manager"
    /\ manager' = [manager EXCEPT !.crawlers = load_path(manager).crawlers]
    /\ obs' = [op |-> "load_path", raised |-> load_path(manager).raised]
    /\ ManagerFrame

\* manager.load_crawler(path) for one of the files
LoadCrawler ==
    /\ pc = "manager"
    /\ \E i \in 1..MaxFiles :
          /\ manager' = [manager EXCEPT
                 !.crawlers = load_crawler(manager, manager.files[i]).crawlers]
          /\ obs' = [op |-> "load_crawler", file |-> i,
                     raised |-> load_crawler(manager, manager.files[i]).raised]
    /\ ManagerFrame

ManagerNext == LoadPath \/ LoadCrawler

SpecManager == ManagerInit /\ [][ManagerNext]_vars

----------------------------------------------------------------------------
(* Storage stages with a successor: directory / lakehouse, then export *)

StorageStages == {"keep", "lake"}

\* what a fetched response serializes to, as the items reach a storage stage
StoreItems ==
    {[url |-> U1, content_hash |-> Sha1("b1"), status_code |-> 200],
     [url |-> U2, content_hash |-> Sha1("b1"), status_code |-> 200,
      foreign_id |-> <<"a">>],
     [url |-> U1, content_hash |-> Sha1("b1"), status_code |-> 404],
     [url |-> U1, status_code |-> 200]}

\* the stage method of a storage stage
storage_method(c, tg, q, data, outcome) ==
    IF c.stage = "keep" THEN directory(c, tg, q, data, outcome)
    ELSE lakehouse(c, tg, q, data, outcome)

\* the jobs for `stage` that a stage body added to the queue
RECURSIVE JobsFor(_, _)
JobsFor(q, stage) ==
    IF q = <<>> THEN <<>>
    ELSE IF Head(q).stage = stage THEN <<Head(q)>> \o JobsFor(Tail(q), stage)
    ELSE JobsFor(Tail(q), stage)

\* what a caller can tell of one call of a storage stage
StoreSeen(c, j, tg, q, r, outcome) ==
    [outcome |-> outcome, done |-> r.stored, item |-> j,
     ctx_incremental |-> c.incremental,
     tags_before |-> tg, tags_after |-> r.tags,
     exported |-> JobsFor(SubSeq(r.queue, Len(q) + 1, Len(r.queue)), "export")]

StoreInit ==
    /\ tags = {}
    /\ queue = <<>>
    /\ pc = "idle"
    /\ ctx = NoCtx
    /\ workdirs = {}
    /\ minted = 0
    /\ runs = EmptyDict
    /\ stored = {}
    /\ completed = {}
    /\ asked = {}
    /\ job = NoJob
    /\ obs = [op |-> "init"]
    /\ HttpIdle

\* a stage of a run started with continue_on_error hands an item to a storage
\* stage, context.emit(stage=...), once the queue has drained
UpstreamEmit ==
    /\ pc = "idle"
    /\ queue = <<>>
    /\ \E b \in BOOLEAN, s \in StorageStages, d \in StoreItems :
          LET c == [stage |-> "parse", run_id |-> Uuid(1), incremental |-> b,
                    continue_on_error |-> TRUE, work_path |-> 0]
              e == emit(c, tags, queue, "store", s, d, FALSE, FALSE)
          IN /\ queue' = e.queue
             /\ obs' = [op |-> "emit", enq |-> e.enq, incremental |-> b]
    /\ UNCHANGED <<tags, pc, ctx, workdirs, minted, runs, stored, completed,
                   asked, job, httpvars>>

\* the worker runs the storage stage of the job it took
StoreExec ==
    /\ pc = "ctx" /\ ctx.stage \in StorageStages
    /\ \E outcome \in Outcomes :
          Finish(storage_method(ctx, tags, queue, job.data, outcome),
                 StoreSeen(ctx, job.data, tags, queue,
                           storage_method(ctx, tags, queue, job.data, outcome),
                           outcome))
    /\ UNCHANGED <<stored, completed>>

\* the worker runs the stage after the storage stage, which emits nothing
ExportExec ==
    /\ pc = "ctx" /\ ctx.stage = "export"
    /\ Finish([tags |-> tags, queue |-> queue, raised |-> FALSE],
              [item |-> job.data])
    /\ UNCHANGED <<stored, completed>>

\* a storage operation called with a Context built directly, as the tests do
StoreDirect ==
    /\ pc = "idle"
    /\ queue = <<>>
    /\ \E b \in BOOLEAN, s \in StorageStages, d \in StoreItems,
          outcome \in Outcomes :
          LET c == [stage |-> s, run_id |-> Uuid(1), incremental |-> b,
                    continue_on_error |-> FALSE, work_path |-> 0]
              r == storage_method(c, tags, queue, d, outcome)
          IN /\ tags' = r.tags
             /\ queue' = r.queue
             /\ obs' = StoreSeen(c, d, tags, queue, r, outcome)
                         @@ [op |-> "store", stage |-> s]
    /\ UNCHANGED <<pc, ctx, workdirs, minted, runs, stored, completed,
                   asked, job, httpvars>>

StoreNext ==
    UpstreamEmit \/ ExecuteStageBegin \/ StoreExec \/ ExportExec \/ StoreDirect

SpecStore == StoreInit /\ [][StoreNext]_vars

----------------------------------------------------------------------------
(* operations.initializers.enumerate: one dict, mutated and emitted per item *)

MaxItems == 3           \* longest `items` list configured

\* a scalar given where a list is expected
Scalar(v) == [t |-> "int", v |-> v]

\* the `items` parameter: missing, one scalar, or a list
RECURSIVE ListsUpTo(_)
ListsUpTo(n) ==
    IF n = 0 THEN {<<>>}
    ELSE ListsUpTo(n - 1)
         \cup {Append(l, x) : l \in {k \in ListsUpTo(n - 1) : Len(k) = n - 1},
                              x \in {1, 2}}

ItemParams == {PyNone, Scalar(1)} \cup {List(l) : l \in ListsUpTo(MaxItems)}

\* the data the stage is called with
EnumData == {EmptyDict, [x |-> <<"a">>], [url |-> U1]}

\* banal.ensure_list
ensure_list(v) ==
    IF v = PyNone THEN <<>>
    ELSE IF v.t = "list" THEN v.v
    ELSE <<v.v>>

\* The dicts alive during one call are objects of a heap: object 0 is the
\* dict the stage was called with, every deepcopy makes the next object.

\* emit, line 185, handing on the caller's dict itself
deepcopy_same_object(heap, ref) == ref

\* emit, line 185: data = deepcopy(data), the object that is deferred
deepcopy(heap, ref) == Cardinality(DOMAIN heap)

\* lines 153-194 on the dict `ref`: the caller's dict as emit leaves it, and
\* the job deferred with the object `copy`
emit_object(st, ref, e, copy) ==
    IF ~e.enq THEN [st EXCEPT !.heap = Put(@, ref, e.data)]
    ELSE [heap |-> Put(Put(st.heap, ref, e.data), copy, e.queue[1].data),
          jobs |-> Append(st.jobs, [e.queue[1] EXCEPT !.data = copy])]

\* lines 146-147: data["item"] = item; context.emit(data=data)
enumerate_item(c, tg, st, item) ==
    emit_object([st EXCEPT !.heap = Put(@, 0, Put(st.heap[0], "item", item))],
                0,
                emit(c, tg, <<>>, "pass", NoStage,
                     Put(st.heap[0], "item", item), FALSE, FALSE),
                deepcopy(st.heap, 0))

\* lines 145-147: the loop over the items
RECURSIVE enumerate_loop(_, _, _, _)
enumerate_loop(c, tg, st, items) ==
    IF items = <<>> THEN st
    ELSE enumerate_loop(c, tg, enumerate_item(c, tg, st, Head(items)), Tail(items))

\* the jobs as a worker reads them once the call has returned
jobs_read(st) ==
    [i \in 1..Len(st.jobs) |-> [st.jobs[i] EXCEPT !.data = st.heap[st.jobs[i].data]]]

\* operations.initializers.enumerate
enumerate(c, tg, data, items) ==
    jobs_read(enumerate_loop(c, tg, [heap |-> (0 :> data), jobs |-> <<>>],
                             ensure_list(items)))

\* data.item of the jobs of a queue
ItemsOf(q) == [i \in 1..Len(q) |-> Get(q[i].data, "item")]

EnumInit ==
    /\ tags \in {{}, {make_emit_cache_key([url |-> U1])}}
    /\ queue = <<>>
    /\ pc = "enumerate"
    /\ \E inc \in BOOLEAN :
          ctx = NewContext("init", [run_id |-> R1, incremental |-> inc,
                                    continue_on_error |-> FALSE], 0, {}).ctx
    /\ workdirs = {1}
    /\ minted = 0
    /\ runs = EmptyDict
    /\ stored = {}
    /\ completed = {}
    /\ asked = {}
    /\ job = NoJob
    /\ obs = [op |-> "init"]
    /\ resp = EmptyDict
    /\ httptags = EmptyDict
    /\ net = NetZero
    /\ sessions = EmptyDict
    /\ https = EmptyDict
    /\ saved = EmptyDict
    /\ workers = EmptyDict
    /\ params \in [items : ItemParams, data : EnumData]
    /\ monitor = EmptyDict
    /\ out = <<>>
    /\ manager = EmptyDict

\* a worker runs the enumerate stage (handler pass: fetch) once the jobs of
\* the previous call have been taken
EnumExec ==
    /\ pc = "enumerate"
    /\ queue = <<>>
    /\ minted < MaxRuns
    /\ minted' = minted + 1
    /\ queue' = enumerate(ctx, tags, params.data, params.items)
    /\ out' = <<>>
    /\ obs' = [op |-> "enumerate",
               jobs |-> Len(enumerate(ctx, tags, params.data, params.items))]
    /\ UNCHANGED tags
    /\ SeqFrame

\* a worker of the next stage takes the oldest job and reads its item
EnumTake ==
    /\ pc = "enumerate"
    /\ queue # <<>>
    /\ queue' = Tail(queue)
    /\ out' = Append(out, Get(Head(queue).data, "item"))
    /\ obs' = [op |-> "take", stage |-> Head(queue).stage]
    /\ UNCHANGED <<tags, minted>>
    /\ SeqFrame

EnumNext == EnumExec \/ EnumTake

SpecEnum == EnumInit /\ [][EnumNext]_vars

----------------------------------------------------------------------------
(* The fetch/parse loop of one run over pages that link to each other *)

MaxPending == 6         \* jobs the queue is given room for
MaxHanded == 8          \* emissions of parse to fetch that are recorded

\* the worker pools a run is given
WorkerSets == {{1}, {1, 2}}

\* U1 with a trailing slash
U1s == <<"h1", "/", "p", "/">>

\* the pages of the site: the URL the server answers for (after redirects),
\* whether the answer is below 400, the body, and the URLs urljoin makes of
\* the link attributes, in document order
Web ==
    (U1 :> [url |-> U1, ok |-> TRUE, body |-> "b1", links |-> <<U2, U1, U2, U1s>>])
    @@ (U2 :> [url |-> U2, ok |-> TRUE, body |-> "b2", links |-> <<U1, U1s>>])
    @@ (U1s :> [url |-> U2, ok |-> TRUE, body |-> "b2", links |-> <<U1, U1s>>])

\* the Context tasks.execute_stage builds for the job
JobContext(j, w) ==
    [stage |-> j.stage, run_id |-> j.run_id, incremental |-> j.incremental,
     continue_on_error |-> j.continue_on_error, work_path |-> w]

\* make_key(context.run_id, url) of parse.py and fetch.py, which is
\* anystore's join_relpaths
url_tag(c, url) == join_relpaths(<<c.run_id, url>>)

\* fetch.py lines 151-154: the requested URL is tagged when the response
\* came from another URL
fetch_redirect_tag(c, tg, url, page) ==
    IF url # page.url THEN set_tag(tg, url_tag(c, url)) ELSE tg

\* operations.fetch.fetch answered by the site: the tags and the queue after
\* the call
fetch_page(c, tg, q, data, page) ==
    IF ~page.ok THEN [tags |-> tg, queue |-> q]
    ELSE [tags |-> fetch_redirect_tag(c, tg, Get(data, "url"), page),
          queue |-> emit(c, fetch_redirect_tag(c, tg, Get(data, "url"), page), q,
                         "pass", NoStage,
                         Update(data, serialize(page.url, 200, page.body)),
                         FALSE, FALSE).queue]

\* a worker between jobs
WorkerIdle == [pc |-> "idle"]

\* the worker once it has taken the job: position, Context, and for
\* parse_html the links still to visit and the set `seen`
WorkerOn(j, w) ==
    [pc |-> j.stage, ctx |-> JobContext(j, w),
     links |-> IF j.stage = "parse" THEN Web[Get(j.data, "url")].links ELSE <<>>,
     seen |-> {}]

\* parse_html, lines 84-89, that takes every URL for untagged
parse_html_check_nothing(wk, tg) ==
    IF Head(wk.links) \in wk.seen THEN [wk EXCEPT !.links = Tail(@)]
    ELSE [wk EXCEPT !.seen = @ \cup {Head(wk.links)}, !.pc = "emit"]

\* parse_html, lines 84-90: the next URL is passed over when it was seen in
\* this document or its tag exists; otherwise the worker goes on to line 91
parse_html_check(wk, tg) ==
    IF Head(wk.links) \in wk.seen THEN [wk EXCEPT !.links = Tail(@)]
    ELSE IF check_tag(tg, url_tag(wk.ctx, Head(wk.links)))
    THEN [wk EXCEPT !.seen = @ \cup {Head(wk.links)}, !.links = Tail(@)]
    ELSE [wk EXCEPT !.seen = @ \cup {Head(wk.links)}, !.pc = "emit"]

\* parse_html, line 91, left out
parse_html_tag_nothing(wk, tg) == tg

\* parse_html, line 91: context.set_tag(tag, None)
parse_html_tag(wk, tg) == set_tag(tg, url_tag(wk.ctx, Head(wk.links)))

\* parse_html, lines 92-102: data["url"] = url; context.emit(rule="fetch", ...)
parse_html_emit(wk, tg, q, data) ==
    emit(wk.ctx, tg, q, "fetch", NoStage,
         Put(data, "url", Head(wk.links)), FALSE, FALSE)

\* parse, lines 207-209: the default store rule matches every response
parse_store(wk, tg, q, data) ==
    emit(wk.ctx, tg, q, "store", NoStage, data, FALSE, FALSE).queue

\* out with one more URL handed to fetch, as long as the record has room
Handed(o, url) == IF Len(o) < MaxHanded THEN Append(o, url) ELSE o

CrawlFrame ==
    UNCHANGED <<pc, ctx, workdirs, minted, runs, stored, completed, asked,
                resp, httptags, net, sessions, https, saved, params, monitor,
                manager>>

\* Crawler.run has queued the init stage and seed has emitted U1 to fetch
CrawlInit ==
    /\ tags = {}
    /\ \E inc \in BOOLEAN :
          queue = seed_emits([stage |-> "init", run_id |-> R1,
                              incremental |-> inc, continue_on_error |-> FALSE,
                              work_path |-> 0],
                             {}, <<>>, SeedUrls)
    /\ pc = "crawl"
    /\ ctx = NoCtx
    /\ workdirs = {}
    /\ minted = 1
    /\ runs = EmptyDict
    /\ stored = {}
    /\ completed = {}
    /\ asked = {}
    /\ \E ws \in WorkerSets :
          /\ workers = [w \in ws |-> WorkerIdle]
          /\ job = [w \in ws |-> EmptyDict]
    /\ obs = [op |-> "init"]
    /\ resp = EmptyDict
    /\ httptags = EmptyDict
    /\ net = NetZero
    /\ sessions = EmptyDict
    /\ https = EmptyDict
    /\ saved = EmptyDict
    /\ params = EmptyDict
    /\ monitor = EmptyDict
    /\ out = <<>>
    /\ manager = EmptyDict

\* tasks.execute_stage: an idle worker takes a job and builds its Context
WorkerTakes(w) ==
    /\ workers[w].pc = "idle"
    /\ \E i \in 1..Len(queue) :
          /\ queue' = RemoveAt(queue, i)
          /\ workers' = [workers EXCEPT ![w] = WorkerOn(queue[i], w)]
          /\ job' = [job EXCEPT ![w] = queue[i].data]
          /\ obs' = [op |-> "take", stage |-> queue[i].stage, worker |-> w]
    /\ UNCHANGED <<tags, out>>
    /\ CrawlFrame

\* the fetch stage
WorkerFetches(w) ==
    /\ workers[w].pc = "fetch"
    /\ Len(queue) < MaxPending
    /\ \E r \in {fetch_page(workers[w].ctx, tags, queue, job[w],
                             Web[Get(job[w], "url")])} :
          /\ tags' = r.tags
          /\ queue' = r.queue
    /\ workers' = [workers EXCEPT ![w] = WorkerIdle]
    /\ job' = [job EXCEPT ![w] = EmptyDict]
    /\ obs' = [op |-> "fetch", worker |-> w, url |-> Get(job[w], "url")]
    /\ UNCHANGED out
    /\ CrawlFrame

\* parse_html up to the check of the next URL's tag
WorkerChecks(w) ==
    /\ workers[w].pc = "parse" /\ workers[w].links # <<>>
    /\ workers' = [workers EXCEPT ![w] = parse_html_check(workers[w], tags)]
    /\ obs' = [op |-> "check", worker |-> w, url |-> Head(workers[w].links)]
    /\ UNCHANGED <<tags, queue, out, job>>
    /\ CrawlFrame

\* parse_html from the set_tag to the emit of the URL that was found untagged
WorkerEmits(w) ==
    /\ workers[w].pc = "emit"
    /\ Len(queue) < MaxPending
    /\ \E tg \in {parse_html_tag(workers[w], tags)} :
       \E e \in {parse_html_emit(workers[w], tg, queue, job[w])} :
          /\ tags' = tg
          /\ queue' = e.queue
          /\ job' = [job EXCEPT ![w] = e.data]
          /\ out' = IF e.enq THEN Handed(out, Head(workers[w].links)) ELSE out
          /\ obs' = [op |-> "emit", worker |-> w, url |-> Head(workers[w].links),
                     enq |-> e.enq]
    /\ workers' = [workers EXCEPT ![w] = [@ EXCEPT !.pc = "parse", !.links = Tail(@)]]
    /\ CrawlFrame

\* parse after parse_html: the store rule, and the stage returns
WorkerParsed(w) ==
    /\ workers[w].pc = "parse" /\ workers[w].links = <<>>
    /\ Len(queue) < MaxPending
    /\ queue' = parse_store(workers[w], tags, queue, job[w])
    /\ workers' = [workers EXCEPT ![w] = WorkerIdle]
    /\ job' = [job EXCEPT ![w] = EmptyDict]
    /\ obs' = [op |-> "parsed", worker |-> w]
    /\ UNCHANGED <<tags, out>>
    /\ CrawlFrame

\* the store stage (directory)
WorkerStores(w) ==
    /\ workers[w].pc = "store"
    /\ \E r \in {directory(workers[w].ctx, tags, queue, job[w], "ok")} :
          /\ tags' = r.tags
          /\ queue' = r.queue
    /\ workers' = [workers EXCEPT ![w] = WorkerIdle]
    /\ job' = [job EXCEPT ![w] = EmptyDict]
    /\ obs' = [op |-> "store", worker |-> w]
    /\ UNCHANGED out
    /\ CrawlFrame

WorkerStep(w) ==
    \/ WorkerTakes(w)
    \/ WorkerFetches(w)
    \/ WorkerChecks(w)
    \/ WorkerEmits(w)
    \/ WorkerParsed(w)
    \/ WorkerStores(w)

CrawlNext == pc = "crawl" /\ \E w \in DOMAIN workers : WorkerStep(w)

\* the positions worker w can be in after its next step: it takes a queued
\* job when it is idle, and goes on to the next line of the stage it is in
WorkerMoves(w) ==
    \/ /\ workers[w].pc = "idle"
       /\ \E i \in 1..Len(queue) :
             workers' = [workers EXCEPT ![w] = WorkerOn(queue[i], w)]
    \/ /\ workers[w].pc \in {"fetch", "store"}
          \/ (workers[w].pc = "parse" /\ workers[w].links = <<>>)
       /\ workers[w].pc = "store" \/ Len(queue) < MaxPending
       /\ workers' = [workers EXCEPT ![w] = WorkerIdle]
    \/ /\ workers[w].pc = "parse" /\ workers[w].links # <<>>
       /\ \E nxt \in {[workers[w] EXCEPT !.links = Tail(@)],
                      [workers[w] EXCEPT !.seen = @ \cup {Head(workers[w].links)},
                                         !.links = Tail(@)],
                      [workers[w] EXCEPT !.seen = @ \cup {Head(workers[w].links)},
                                         !.pc = "emit"]} :
             workers' = [workers EXCEPT ![w] = nxt]
    \/ /\ workers[w].pc = "emit"
       /\ Len(queue) < MaxPending
       /\ workers' = [workers EXCEPT ![w] = [@ EXCEPT !.pc = "parse", !.links = Tail(@)]]

\* workers are processes of their own: one that can move does move
SpecCrawl ==
    CrawlInit /\ [][CrawlNext]_vars
    /\ WF_workers(pc = "crawl" /\ \E w \in DOMAIN workers : WorkerMoves(w))

----------------------------------------------------------------------------
(* One ContextHttpResponse object: how often its request is sent *)

\* the metadata an earlier run's fetch() of GET U1 left in the tag store
CachedMetadata ==
    response_fetch([resp |-> NewResponse(TRUE, [method |-> "GET", url |-> U1]),
                    tags |-> EmptyDict, net |-> NetZero],
                   [status |-> 200, url |-> U1, headers |-> ("ETag" :> <<"e1">>),
                    body |-> "b1"]).w.tags

OnceFrame ==
    UNCHANGED <<tags, queue, pc, ctx, workdirs, minted, runs, stored, completed,
                asked, job, sessions, https, saved, workers, params, monitor,
                manager>>

\* a fetch stage whose tag store is empty or holds the metadata of an
\* earlier fetch
OnceInit ==
    /\ tags = {}
    /\ queue = <<>>
    /\ pc = "once"
    /\ ctx = NewContext("fetch", [run_id |-> R1, incremental |-> TRUE,
                                  continue_on_error |-> FALSE], 0, {}).ctx
    /\ workdirs = {1}
    /\ minted = 0
    /\ runs = EmptyDict
    /\ stored = {}
    /\ completed = {}
    /\ asked = {}
    /\ job = [stage |-> NoStage]
    /\ obs = [op |-> "init"]
    /\ \E cache \in BOOLEAN : resp = NewResponse(cache, NoRequest)
    /\ httptags \in {EmptyDict, CachedMetadata}
    /\ net = NetZero
    /\ sessions = EmptyDict
    /\ https = EmptyDict
    /\ saved = EmptyDict
    /\ workers = EmptyDict
    /\ params = EmptyDict
    /\ monitor = EmptyDict
    /\ out = <<>>
    /\ manager = EmptyDict

\* ContextHttp.request(method, url, lazy=True): a new response object, to
\* which nothing has been answered yet
OnceRequest ==
    /\ pc = "once"
    /\ \E method \in Methods :
          /\ resp' = NewResponse(resp.cache, [method |-> method, url |-> U1])
          /\ obs' = [op |-> "request", method |-> method]
    /\ out' = <<>>
    /\ UNCHANGED <<httptags, net>>
    /\ OnceFrame

\* a call on the object that left the world w1: `out` lists the status codes
\* the server answered to this object
OnceDone(op, w1, ans) ==
    /\ w1.net.sends <= MaxSends
    /\ SetWorld(w1)
    /\ out' = IF w1.net.sends > net.sends THEN Append(out, ans.status) ELSE out
    /\ obs' = [op |-> op, sent |-> w1.net.sends - net.sends,
               cached |-> existing_of(World) # EmptyDict]

\* response.response
OnceResponse ==
    /\ pc = "once" /\ resp.request # NoRequest
    /\ \E ans \in Drawn(TRUE) : OnceDone("response", response(World, ans), ans)
    /\ OnceFrame

\* response.status_code
OnceStatusCode ==
    /\ pc = "once" /\ resp.request # NoRequest
    /\ \E ans \in Drawn(resp._status_code = NoStatus) :
          OnceDone("status_code", status_code(World, ans), ans)
    /\ OnceFrame

\* response.headers
OnceHeaders ==
    /\ pc = "once" /\ resp.request # NoRequest
    /\ \E ans \in Drawn(resp._headers = NoHeaders) :
          OnceDone("headers", headers(World, ans), ans)
    /\ OnceFrame

\* response.content_hash
OnceContentHash ==
    /\ pc = "once" /\ resp.request # NoRequest
    /\ \E ans \in Drawn(resp._content_hash = None) :
          OnceDone("content_hash", content_hash(World, ans).w, ans)
    /\ OnceFrame

\* response.fetch()
OnceFetch ==
    /\ pc = "once" /\ resp.request # NoRequest
    /\ \E ans \in Drawn(resp._content_hash = None) :
          OnceDone("fetch", response_fetch(World, ans).w, ans)
    /\ OnceFrame

OnceNext ==
    \/ OnceRequest
    \/ OnceResponse
    \/ OnceStatusCode
    \/ OnceHeaders
    \/ OnceContentHash
    \/ OnceFetch

SpecOnce == OnceInit /\ [][OnceNext]_vars

----------------------------------------------------------------------------
(* IdleMonitor.is_queue_idle: two status queries while the workers go on *)

\* the workers that run jobs of the queue
PollWorkers == {1, 2}

\* the monitor about to call is_queue_idle, next to a queue with `todo`
\* pending and `doing` running jobs
NewPoll(todo, doing) ==
    [at |-> "call",          \* position: call, todo, doing, returned
     ret |-> "none",         \* what the last call returned
     todo |-> todo, doing |-> doing,
     was_empty |-> FALSE]    \* the queue was empty at an instant of the call

\* the queue holds neither a pending nor a running job
queue_empty(m) == m.todo = 0 /\ m.doing = 0

\* the queue changes to todo/doing while a call may be under way
queue_becomes(m, todo, doing) ==
    [m EXCEPT !.todo = todo, !.doing = doing,
              !.was_empty = @ \/ (m.at \in {"todo", "doing"}
                                  /\ todo = 0 /\ doing = 0)]

\* is_queue_idle, lines 50-54: the query for todo jobs and its test
query_todo(m) ==
    IF m.todo > 0 THEN [m EXCEPT !.ret = "False", !.at = "returned"]
    ELSE [m EXCEPT !.at = "doing"]

\* is_queue_idle, lines 57-63: the query for doing jobs, its test, return True
query_doing(m) ==
    IF m.doing > 0 THEN [m EXCEPT !.ret = "False", !.at = "returned"]
    ELSE [m EXCEPT !.ret = "True", !.at = "returned"]

PollInit ==
    /\ tags = {}
    /\ queue = <<>>
    /\ pc = "poll"
    /\ ctx = NoCtx
    /\ workdirs = {}
    /\ minted = 0
    /\ runs = EmptyDict
    /\ stored = {}
    /\ completed = {}
    /\ asked = {}
    /\ job = NoJob
    /\ obs = [op |-> "init"]
    /\ resp = EmptyDict
    /\ httptags = EmptyDict
    /\ net = NetZero
    /\ sessions = EmptyDict
    /\ https = EmptyDict
    /\ saved = EmptyDict
    /\ workers = EmptyDict
    /\ params = EmptyDict
    /\ \E todo \in 0..MaxQueue, doing \in 0..Cardinality(PollWorkers) :
          monitor = NewPoll(todo, doing)
    /\ out = <<>>
    /\ manager = EmptyDict

\* run(), line 86: is_queue_idle is called
PollCall ==
    /\ pc = "poll" /\ monitor.at \in {"call", "returned"}
    /\ monitor' = [monitor EXCEPT !.at = "todo", !.ret = "none",
                                  !.was_empty = queue_empty(monitor)]
    /\ obs' = [op |-> "call"]
    /\ IdleFrame

\* the first await of is_queue_idle is answered
PollTodo ==
    /\ pc = "poll" /\ monitor.at = "todo"
    /\ monitor' = query_todo(monitor)
    /\ obs' = [op |-> "todo", found |-> monitor.todo]
    /\ IdleFrame

\* the second await of is_queue_idle is answered
PollDoing ==
    /\ pc = "poll" /\ monitor.at = "doing"
    /\ monitor' = query_doing(monitor)
    /\ obs' = [op |-> "doing", found |-> monitor.doing]
    /\ IdleFrame

\* a worker takes a pending job
PollJobTaken ==
    /\ pc = "poll"
    /\ monitor.todo > 0 /\ monitor.doing < Cardinality(PollWorkers)
    /\ monitor' = queue_becomes(monitor, monitor.todo - 1, monitor.doing + 1)
    /\ obs' = [op |-> "taken"]
    /\ IdleFrame

\* a running job emits: a successor job is deferred (Context.emit)
PollJobEmits ==
    /\ pc = "poll"
    /\ monitor.doing > 0 /\ monitor.todo < MaxQueue
    /\ monitor' = queue_becomes(monitor, monitor.todo + 1, monitor.doing)
    /\ obs' = [op |-> "emitted"]
    /\ IdleFrame

\* a running job finishes
PollJobFinishes ==
    /\ pc = "poll"
    /\ monitor.doing > 0
    /\ monitor' = queue_becomes(monitor, monitor.todo, monitor.doing - 1)
    /\ obs' = [op |-> "finished"]
    /\ IdleFrame

PollNext ==
    \/ PollCall
    \/ PollTodo
    \/ PollDoing
    \/ PollJobTaken
    \/ PollJobEmits
    \/ PollJobFinishes

SpecPoll == PollInit /\ [][PollNext]_vars

----------------------------------------------------------------------------
(* Tag keys: set_tag under one key, check_tag under another *)

\* the '<pipeline-name>/<k>' form of a key
Prefixed(k) == CrawlerName \o <<"/">> \o k

\* keys a stage may tag with: raw keys and their prefixed forms
AliasKeys == RawKeys \cup {Prefixed(k) : k \in RawKeys}

AliasInit ==
    /\ tags = {}
    /\ queue = <<>>
    /\ pc = "set"
    /\ ctx = NewContext("fetch", [run_id |-> R1, incremental |-> TRUE,
                                  continue_on_error |-> FALSE], 0, {}).ctx
    /\ workdirs = {1}
    /\ minted = 0
    /\ runs = EmptyDict
    /\ stored = {}
    /\ completed = {}
    /\ asked = {}
    /\ job = NoJob
    /\ obs = [op |-> "init"]
    /\ resp = EmptyDict
    /\ httptags = EmptyDict
    /\ net = NetZero
    /\ sessions = EmptyDict
    /\ https = EmptyDict
    /\ saved = EmptyDict
    /\ workers = EmptyDict
    /\ params \in [k1 : AliasKeys, k2 : AliasKeys]
    /\ monitor = EmptyDict
    /\ out = <<>>
    /\ manager = EmptyDict

AliasFrame ==
    UNCHANGED <<queue, ctx, workdirs, minted, runs, stored, completed, asked,
                job, resp, httptags, net, sessions, https, saved, workers,
                params, monitor, out, manager>>

\* context.set_tag(k1, None)
AliasSet ==
    /\ pc = "set"
    /\ tags' = set_tag(tags, params.k1)
    /\ pc' = "check"
    /\ obs' = [op |-> "set_tag", key |-> params.k1]
    /\ AliasFrame

\* context.check_tag(k2)
AliasCheck ==
    /\ pc = "check"
    /\ obs' = [op |-> "check_tag", key |-> params.k2,
               ret |-> check_tag(tags, params.k2)]
    /\ pc' = "checked"
    /\ UNCHANGED tags
    /\ AliasFrame

AliasNext == AliasSet \/ AliasCheck

SpecAlias == AliasInit /\ [][AliasNext]_vars

----------------------------------------------------------------------------
(* The dedup policies called in a context of either incremental flag *)

\* the tags an earlier, incremental run left for the item: its emit key
\* marked complete, the criteria passed to skip_incremental, and the target
\* stage completed for its identifier
PriorTags(data, criteria, config) ==
    mark_incremental_complete(
        [stage |-> should_skip_incremental(NoCtx, {}, data, config).data
                       ["skip_incremental"].target],
        skip_incremental([incremental |-> TRUE],
                         mark_emit_complete({}, emit_outgoing([incremental |-> TRUE], data)),
                         <<criteria>>).tags,
        should_skip_incremental(NoCtx, {}, data, config).data)

PolicyInit ==
    /\ pc = "policy"
    /\ queue = <<>>
    /\ \E inc \in BOOLEAN :
          ctx = NewContext("fetch", [run_id |-> R1, incremental |-> inc,
                                     continue_on_error |-> FALSE], 0, {}).ctx
    /\ workdirs = {1}
    /\ minted = 0
    /\ runs = EmptyDict
    /\ stored = {}
    /\ completed = {}
    /\ asked = {}
    /\ job = NoJob
    /\ obs = [op |-> "init"]
    /\ resp = EmptyDict
    /\ httptags = EmptyDict
    /\ net = NetZero
    /\ sessions = EmptyDict
    /\ https = EmptyDict
    /\ saved = EmptyDict
    /\ workers = EmptyDict
    /\ params \in [data : TargetInputs, criteria : RawKeys,
                   config : SkipConfigs \ {NoConfig}]
    /\ tags \in {{}, PriorTags(params.data, params.criteria, params.config)}
    /\ monitor = EmptyDict
    /\ out = <<>>
    /\ manager = EmptyDict

PolicyFrame ==
    UNCHANGED <<pc, ctx, workdirs, minted, runs, stored, completed, asked, job,
                resp, httptags, net, sessions, https, saved, workers, params,
                monitor, out, manager>>

\* context.emit(data=data) from the fetch stage, which has a pass handler
PolicyEmit ==
    /\ pc = "policy" /\ queue = <<>>
    /\ queue' = emit(ctx, tags, queue, "pass", NoStage, params.data,
                     FALSE, FALSE).queue
    /\ obs' = [op |-> "emit",
               enq |-> emit(ctx, tags, queue, "pass", NoStage, params.data,
                            FALSE, FALSE).enq,
               tagged |-> tags # {}]
    /\ UNCHANGED tags
    /\ PolicyFrame

\* a worker takes the job off the queue
PolicyTake ==
    /\ pc = "policy" /\ queue # <<>>
    /\ queue' = Tail(queue)
    /\ obs' = [op |-> "take", incremental |-> Head(queue).incremental]
    /\ UNCHANGED tags
    /\ PolicyFrame

\* context.skip_incremental(criteria)
PolicySkip ==
    /\ pc = "policy"
    /\ tags' = skip_incremental(ctx, tags, <<params.criteria>>).tags
    /\ obs' = [op |-> "skip_incremental",
               ret |-> skip_incremental(ctx, tags, <<params.criteria>>).ret,
               wrote |-> skip_incremental(ctx, tags, <<params.criteria>>).tags # tags,
               tagged |-> tags # {}]
    /\ UNCHANGED queue
    /\ PolicyFrame

\* should_skip_incremental(context, data) in a stage configured with
\* skip_incremental
PolicyShouldSkip ==
    /\ pc = "policy"
    /\ obs' = [op |-> "should_skip_incremental",
               ret |-> should_skip_incremental(ctx, tags, params.data,
                                               params.config).ret,
               tagged |-> tags # {}]
    /\ UNCHANGED <<tags, queue>>
    /\ PolicyFrame

PolicyNext == PolicyEmit \/ PolicyTake \/ PolicySkip \/ PolicyShouldSkip

SpecPolicy == PolicyInit /\ [][PolicyNext]_vars

----------------
(* Properties of the pipeline run *)

\* C4: once the store stage has succeeded for an item in an earlier run, a
\* later incremental fetch of the same URL that finds the same content
\* defers no job from its emit.
C4_SecondRunFetchEmitsNothing ==
    (obs.op = "exec" /\ obs.stage = "fetch" /\ obs.incremental
        /\ obs.outcome = "ok" /\ obs.stored_before)
        => (~obs.emitted /\ ~obs.recursed /\ obs.next_attempts = {})

\* a later run fetched the stored item again, unchanged
C4_Witness ==
    /\ obs.op = "exec" /\ obs.stage = "fetch" /\ obs.incremental
    /\ obs.outcome = "ok" /\ obs.stored_before
    /\ \E e \in stored : e[1] # obs.run_id /\ e[2] = obs.url /\ e[3] = obs.hash

\* C5: every deferred job, and every Context built from one, carries the
\* incremental and continue_on_error flags its run was started with.
C5_FlagsCarriedUnchanged ==
    /\ \A i \in 1..Len(queue) :
          /\ queue[i].incremental = runs[queue[i].run_id].incremental
          /\ queue[i].continue_on_error = runs[queue[i].run_id].continue_on_error
    /\ pc = "ctx" =>
          /\ ctx.incremental = runs[ctx.run_id].incremental
          /\ ctx.continue_on_error = runs[ctx.run_id].continue_on_error

\* C6: a stage invocation runs under the run id of its job, every job it
\* defers carries that run id, and only Crawler.run mints run ids.
C6_RunIdInherited ==
    /\ pc = "ctx" => ctx.run_id = job.run_id
    /\ obs.op = "exec" =>
          (obs.run_id = obs.job_run /\ obs.child_runs \subseteq {obs.job_run})
    /\ \A i \in 1..Len(queue) : queue[i].run_id \in DOMAIN runs
    /\ minted = Cardinality(DOMAIN runs)

\* a stage of the second run deferred a job
C6_Witness ==
    /\ obs.op = "exec" /\ obs.stage = "fetch"
    /\ obs.child_runs = {Uuid(2)}
    /\ Cardinality(DOMAIN runs) = 2

\* C8: when execute has finished, by return, by re-raising or by swallowing
\* the exception, the scratch directory of its Context is gone.
C8_ScratchDirRemoved ==
    /\ obs.op = "exec" => obs.work_path \notin workdirs
    /\ pc = "idle" => workdirs = {}

\* a stage body raised, the exception left execute, and the directory is gone
C8_Witness ==
    /\ obs.op = "exec" /\ obs.raised /\ obs.propagated
    /\ obs.work_path \notin workdirs

\* C9: an exception of the stage body is logged; it leaves execute exactly
\* when continue_on_error is false; when it is true the job is done and is
\* not retried.
C9_ExceptionPolicy ==
    (obs.op = "exec" /\ obs.raised) =>
        /\ obs.logged
        /\ obs.propagated = ~obs.continue_on_error
        /\ obs.continue_on_error => (~obs.failed /\ ~obs.retried)

\* an exception was swallowed under continue_on_error
C9_Witness ==
    /\ obs.op = "exec" /\ obs.raised /\ obs.continue_on_error
    /\ obs.logged /\ ~obs.propagated /\ ~obs.retried

\* C10: a fetch that fails with a network error re-emits itself with
\* retry_attempt + 1 while the attempt is within the retry ceiling, and past
\* it warns, defers nothing and raises nothing; no job ever carries an
\* attempt beyond ceiling + 1.
C10_FetchRetryBounded ==
    /\ (obs.op = "exec" /\ obs.stage = "fetch" /\ obs.outcome = "httperror") =>
          /\ ~obs.raised
          /\ ~obs.emitted
          /\ IF obs.attempt <= FetchRetry
             THEN /\ obs.recursed
                  /\ obs.next_attempts = {obs.attempt + 1}
                  /\ ~obs.warned
             ELSE /\ ~obs.recursed
                  /\ obs.next_attempts = {}
                  /\ obs.warned
    /\ \A i \in 1..Len(queue) :
          /\ RetryAttempt(queue[i].data) <= FetchRetry + 1
          /\ RetryAttempt(queue[i].data) > 1 => queue[i].stage = "fetch"

\* the attempt after the last re-emission failed too and gave up
C10_Witness ==
    /\ obs.op = "exec" /\ obs.stage = "fetch" /\ obs.outcome = "httperror"
    /\ obs.attempt = FetchRetry + 1
    /\ obs.warned /\ ~obs.recursed /\ queue = <<>>

------------------------------------------------------------\* C22: after cancel returns, no pending job of the pipeline is left in the
\* queue and no tag of the pipeline is left in the tag store.
C22_CancelFlushesQueueAndTags ==
    obs.op = "cancel" => (queue = <<>> /\ tags = {})

----------------
(* Properties of ContextHttpResponse *)

\* the calls on a response that may send its request
RespCalls == {"fetch", "content_hash", "ok", "roundtrip"}

\* C11: when a repeat request with cached metadata is answered 304, the
\* response shows the cached content_hash, status, url and headers, and the
\* call writes nothing to the archive.
C11_NotModifiedUsesCachedMetadata ==
    (obs.op \in RespCalls /\ obs.answered = 304) =>
        /\ obs.view.content_hash = obs.existing.content_hash
        /\ obs.view.status_code = obs.existing.status_code
        /\ obs.view.url = obs.existing.url
        /\ obs.view.headers = obs.existing.headers
        /\ obs.wrote = 0

\* C12: a call writes response metadata to the tag store only when caching
\* is enabled, the method is GET or HEAD and the status is below 400; no
\* POST ever writes it.
C12_CacheTagOnlyForCachedMethods ==
    (obs.op \in RespCalls /\ obs.tagged) =>
        /\ obs.cache
        /\ obs.method \in CACHE_METHODS
        /\ obs.view.status_code < 400

\* C13: once a response has a content_hash, every later fetch(), content_hash
\* read, ok read or serialize leaves it as it is, fetch() and content_hash
\* return it, and nothing is sent, streamed or written to the archive.
C13_ContentHashMemoized ==
    (obs.op \in RespCalls /\ obs.hash_before # None) =>
        /\ obs.view.content_hash = obs.hash_before
        /\ IF obs.op \in {"fetch", "content_hash"}
           THEN obs.ret = obs.hash_before
           ELSE TRUE
        /\ obs.sent = 0
        /\ obs.streamed = 0
        /\ obs.wrote = 0

\* fetch() was called again on a response that had been downloaded
C13_Witness ==
    /\ obs.op = "fetch"
    /\ obs.hash_before # None
    /\ obs.ret = obs.hash_before
    /\ resp._response # NoResponse
    /\ net.writes = 1

\* C14: every response with a content_hash has a status and a retrieval
\* timestamp, and every metadata record in the tag store carries a
\* retrieval timestamp.
C14_FetchedResponseComplete ==
    /\ resp._content_hash # None =>
          /\ View(resp).status_code # NoStatus
          /\ resp.retrieved_at # None
    /\ \A k \in DOMAIN httptags : httptags[k].retrieved_at # None

\* C15: a response rebuilt by deserialize from the dict serialize returned
\* has the same url, status_code and content_hash, and reading them sends no
\* request.
C15_SerializeRoundTrip ==
    obs.op = "roundtrip" =>
        /\ obs.other.url = obs.view.url
        /\ obs.other.status_code = obs.view.status_code
        /\ obs.other.content_hash = obs.view.content_hash
        /\ obs.other_sent = 0

\* a downloaded response that had been redirected went through the round trip
C15_Witness ==
    /\ obs.op = "roundtrip"
    /\ obs.view.content_hash # None
    /\ obs.view.url = U2
    /\ obs.other.url = U2
    /\ obs.view.status_code = 200

----------------------------------------------------------------------------
(* Properties of the shared session state *)

\* C16: a Context built for run R loads exactly the session state written by
\* the last save of a stage of run R, and nothing when no stage of R has
\* saved; what stages of another run saved is not loaded.
C16_SessionLoadedPerRun ==
    obs.op = "load" =>
        obs.loaded = IF obs.run_id \in DOMAIN saved
                     THEN saved[obs.run_id]
                     ELSE NoSession

\* a stage loaded cookies and auth saved for its run while another run had
\* saved something else
C16_Witness ==
    /\ obs.op = "load"
    /\ obs.loaded.cookies # {}
    /\ obs.loaded.auth_header = BasicHeader
    /\ \E r \in DOMAIN saved : r # obs.run_id /\ saved[r] # obs.loaded

\* C17: after a save the persisted session of the run is the state of the
\* saving stage's client alone: the last writer wins and nothing of an
\* earlier writer is merged in.
C17_LastWriterWins ==
    obs.op = "save" =>
        sessions[_get_session_key(obs.run_id)] = from_client(https[obs.stage]._client)

\* another stage of the same run holds a cookie it had saved, and the later
\* save of this stage left the persisted session without it
C17_Witness ==
    /\ obs.op = "save"
    /\ sessions[_get_session_key(obs.run_id)].cookies = {}
    /\ \E w \in DOMAIN https :
          /\ w # obs.stage
          /\ https[w].run_id = obs.run_id
          /\ "a" \in https[w]._client.cookies

----------------------------------------------------------------------------
(* Properties of concurrent deliveries *)

\* C18: the test and the write of skip_incremental are separate steps: a
\* worker that found the key untagged returns False even when another worker
\* has written the tag in between, and its emit is let through as long as no
\* store has marked the key.
C18_CheckThenSetNotAtomic ==
    /\ obs.op = "write" => ~obs.ret
    /\ \A w \in DOMAIN workers :
          (workers[w].late \/ workers[w].through) => ~workers[w].ret

\* two workers with deliveries of the same item both got False from
\* skip_incremental, the second writing a tag that was already there, and
\* both emits were deferred
C18_Witness ==
    /\ obs.op = "emitted"
    /\ DOMAIN workers = Workers
    /\ workers["w1"].item = workers["w2"].item
    /\ \A w \in Workers : workers[w].pc = "done" /\ ~workers[w].ret /\ workers[w].through
    /\ \E w \in Workers : workers[w].late
    /\ Len(queue) = 2
    /\ queue[1].data = queue[2].data
    /\ ctx.incremental

----------------------------------------------------------------------------
(* Properties of target-stage skipping *)

\* C19: a tag of the (identifier, target) family is written only by
\* mark_incremental_complete called in the stage the item's skip info names
\* as target, and the tag written is the one the skip info names;
\* should_skip_incremental and every other stage write none.
C19_TargetTagOnlyByTargetStage ==
    (obs.op \in {"fetch", "parse", "store", "mark"} /\ obs.written # {}) =>
        /\ obs.op = "mark"
        /\ obs.stage = obs.info.target
        /\ obs.written = {make_key(<<obs.info.key>>, None)}

\* mark_incremental_complete ran in the store stage for an item whose target
\* is store and wrote the tag
C19_Witness ==
    /\ obs.op = "mark"
    /\ obs.stage = "store"
    /\ obs.info.target = "store"
    /\ obs.written # {}
    /\ check_tag(tags, obs.info.key)

\* C20: once the store operation has completed successfully in the stage an
\* item names as its target, the (identifier, target) tag is set, and a later
\* should_skip_incremental for the same identifier and target returns True.
C20_StoreSetsTargetTag ==
    /\ \A k \in stored : check_tag(tags, k)
    /\ (obs.op = "fetch" /\ obs.done_before) => obs.skipped

----------------------------------------------------------------------------
(* Properties of the direct Context calls *)

\* the stage an emit call names, from its arguments alone
NamedStage(o) ==
    IF o.stage # NoStage THEN o.stage
    ELSE IF o.rule \in DOMAIN Handlers[ctx.stage] THEN Handlers[ctx.stage][o.rule]
    ELSE NoStage

\* C1: an emit whose target cannot be resolved (label not in the handler
\* table and no explicit stage, or a stage name the pipeline does not have)
\* defers no job and raises nothing, with optional set or not.
C1_EmitUnresolvedIsNoop ==
    (obs.op = "emit" /\ NamedStage(obs) \notin StageNames)
        => (~obs.enq /\ ~obs.raised /\ Len(queue) = obs.qlen)

\* a non-optional emit on a label whose handler names a stage that is not configured
C1_Witness ==
    /\ obs.op = "emit"
    /\ obs.stage = NoStage /\ obs.rule = "pass" /\ ~obs.optional
    /\ NamedStage(obs) = "ghost"
    /\ ~obs.enq

\* C2: in incremental mode the first skip_incremental(k) returns False and
\* every later one True, whatever other keys were asked in between.
C2_SkipFalseExactlyOnce ==
    (obs.op = "skip" /\ ctx.incremental) => (obs.ret = ~obs.first)

\* C3: in incremental mode an emit whose data derives a cache key that
\* mark_emit_complete has been given defers no job; mark_emit_complete on
\* data without a stashed key writes no tag.
C3_CompletedKeySuppressesEmit ==
    /\ (obs.op = "emit" /\ ctx.incremental /\ obs.key_done)
            => (~obs.enq /\ Len(queue) = obs.qlen)
    /\ (obs.op = "mark" /\ ~obs.stash) => ~obs.wrote

\* a resolvable emit is suppressed because its key was marked complete
C3_Witness ==
    /\ obs.op = "emit" /\ ctx.incremental /\ obs.key_done
    /\ NamedStage(obs) = "store"
    /\ ~obs.enq

\* C7: emit leaves the dict the caller passed with the same keys and values.
C7_EmitKeepsCallerData ==
    obs.op = "emit" => obs.after = obs.before

\* the fields _make_emit_cache_key consults, in the documented order
EmitKeyFields == <<"emit_cache_key", "foreign_id", "content_hash", "url">>

\* the first of the fields that is present and non-empty in data, or "none"
RECURSIVE FirstNonEmptyField(_, _)
FirstNonEmptyField(fields, data) ==
    IF fields = <<>> THEN "none"
    ELSE IF Head(fields) \in DOMAIN data /\ data[Head(fields)] # <<>>
    THEN Head(fields)
    ELSE FirstNonEmptyField(Tail(fields), data)

\* the emit-namespaced key of field f of data (the url is normalized first)
FieldKey(f, data) ==
    IF f = "url" THEN make_key(<<make_url_key(data[f])>>, <<"emit">>)
    ELSE make_key(<<data[f]>>, <<"emit">>)

----------------------------------------------------------------------------
(* Properties of the idle monitor *)

QueueIdle == monitor.todo = 0 /\ monitor.doing = 0

MonitorStoppedOnce == monitor.at = "done" /\ monitor.stop_calls = 1

C24_StopOnlyAfterContinuousIdle ==
    /\ (obs.op = "poll" /\ obs.stopped)
            => (obs.found_idle /\ ~obs.raised
                /\ obs.elapsed >= monitor.idle_timeout)
    /\ (obs.op = "poll" /\ (~obs.found_idle \/ obs.raised))
            => (monitor._idle_since = NoTime /\ ~obs.stopped)
    /\ (obs.op = "top" /\ obs.was_stopped)
            => (monitor.at = "done" /\ monitor.stop_calls = obs.stop_calls)

\* the monitor stops the worker after its timer was cleared by a failing
\* queue check and started again
C24_Witness ==
    /\ obs.op = "poll" /\ obs.stopped
    /\ monitor.idle_timeout >= 2
    /\ monitor.cleared

----------------------------------------------------------------------------
(* Properties of the sequence operation *)

\* Python's range(start, stop, step) for step # 0, as a sequence
RECURSIVE Range(_, _, _)
Range(start, stop, step) ==
    IF (step > 0 /\ start < stop) \/ (step < 0 /\ start > stop)
    THEN <<start>> \o Range(start + step, stop, step)
    ELSE <<>>

ImmediateUntagged == params.delay = NoDelay /\ params.tag = None

\* C25: in immediate mode without a tag one invocation emits exactly the
\* numbers of range(start, stop, step), each once and in order.
C25_SequenceEmitsRange ==
    (obs.op = "sequence" /\ ImmediateUntagged)
        => obs.emitted = Range(params.start, params.stop, params.step)

\* what one invocation in immediate mode emits for the same start, stop, step
ImmediateEmits ==
    NumbersFor(sequence(ctx, {}, <<>>, EmptyDict,
                        [params EXCEPT !.delay = NoDelay]).queue, "fetch")

\* C26: once the chain of self-re-emitted invocations of a run in recursive
\* mode has ended, the numbers it emitted downstream are exactly those one
\* invocation in immediate mode emits, in the same number.
C26_RecursiveEqualsImmediate ==
    (obs.op = "sequence" /\ params.delay # NoDelay /\ params.tag = None
     /\ queue = <<>>)
        => obs.run_out = ImmediateEmits

\* a chain of three invocations has emitted 2, 5, 8
C26_Witness ==
    /\ obs.op = "sequence" /\ params.delay # NoDelay /\ params.tag = None
    /\ queue = <<>> /\ ~obs.first
    /\ obs.run_out = <<2, 5, 8>>

\* C27: with a tag, over all invocations and runs no number is emitted twice,
\* a number whose tag exists is not emitted, and every number an invocation
\* visited is tagged.
C27_TaggedNumbersEmittedOnce ==
    params.tag # None =>
        /\ \A i, j \in 1..Len(out) : out[i] = out[j] => i = j
        /\ obs.op = "sequence" =>
              \A i \in 1..Len(obs.visited) :
                  check_tag(tags, sequence_tag(params, obs.visited[i]))

\* a second run visits 2, 5, 8 again and emits none of them
C27_Witness ==
    /\ params.tag # None /\ minted = 2
    /\ obs.op = "sequence" /\ obs.visited = <<2, 5, 8>> /\ obs.emitted = <<>>
    /\ out = <<2, 5, 8>>

----------------------------------------------------------------------------
(* Properties of the dates operation *)

BeginDay == strptime(params.begin)

EndDay == strptime(params.end)

\* begin, begin + delta, begin + 2*delta, ... up to and including end
ForwardDates ==
    [k \in 1..((EndDay - BeginDay) \div relativedelta(params) + 1) |->
        strftime(BeginDay + (k - 1) * relativedelta(params))]

----------------------------------------------------------------------------
(* Properties of the rule engine *)

\* C29: for rules A and B and a response, the parsed rule not(A or B) and
\* the parsed rule (not A) and (not B) give the same boolean.
C29_DeMorgan ==
    (obs.op = "apply" /\ obs.a.ok /\ obs.b.ok)
        => /\ obs.not_or.ok /\ obs.and_not.ok
           /\ obs.not_or.ret = obs.and_not.ret
           /\ obs.not_or.ret = (~obs.a.ret /\ ~obs.b.ret)

\* A does not match the response and B does: both sides are false
C29_Witness ==
    /\ obs.op = "apply" /\ obs.a.ok /\ obs.b.ok
    /\ ~obs.a.ret /\ obs.b.ret
    /\ ~obs.not_or.ret /\ ~obs.and_not.ret

\* a spec the claim lists: not a mapping, no key, several keys, an unknown
\* key, and/or with a value that is no list, not with a value that is no
\* mapping, or such a spec as a child of and/or/not at any depth
RECURSIVE Malformed(_)
Malformed(spec) ==
    \/ spec.t # "dict"
    \/ Len(spec.v) # 1
    \/ spec.v[1][1] \notin RULE_TYPES
    \/ /\ spec.v[1][1] \in {"and", "all", "or", "any"}
       /\ \/ spec.v[1][2].t # "list"
          \/ \E i \in 1..Len(spec.v[1][2].v) : Malformed(spec.v[1][2].v[i])
    \/ /\ spec.v[1][1] = "not"
       /\ \/ spec.v[1][2].t # "dict"
          \/ Malformed(spec.v[1][2])

\* C30: parse_rule raises RuleParsingException, and returns no rule, for
\* every spec that is malformed in one of the listed ways, at any depth.
C30_MalformedSpecRaises ==
    (obs.op = "parse" /\ Malformed(params.a)) => ~obs.returned

\* a spec with two keys nested two levels deep has been refused
C30_Witness ==
    /\ obs.op = "parse" /\ ~obs.returned
    /\ params.a.t = "dict" /\ Len(params.a.v) = 1 /\ params.a.v[1][1] = "not"
    /\ params.a.v[1][2].t = "dict" /\ Len(params.a.v[1][2].v) = 1
    /\ params.a.v[1][2].v[1][1] = "not"
    /\ params.a.v[1][2].v[1][2].t = "dict"
    /\ Len(params.a.v[1][2].v[1][2].v) = 2

----------------------------------------------------------------------------
(* Properties of the crawler manager *)

\* the whole name is made of characters of [A-Za-z0-9_-], at least one
NameMatches(name) ==
    /\ name.t = "str"
    /\ name.v # <<>>
    /\ \A i \in 1..Len(name.v) : name.v[i] \in NameChars

\* the pipeline name or a stage name of the configuration does not match
InvalidConfig(file) ==
    \/ ~NameMatches(crawler_name(file))
    \/ \E i \in 1..Len(file.pipeline) : ~NameMatches(file.pipeline[i])

\* C31: a configuration whose pipeline name or a stage name does not match
\* ^[A-Za-z0-9_-]+$ fails to load: load_path skips it without raising, loads
\* the other files, and the crawler map never holds a crawler built from it.
C31_InvalidNamesNeverLoad ==
    /\ \A n \in DOMAIN manager.crawlers :
          ~InvalidConfig(manager.files[manager.crawlers[n].source_file])
    /\ (obs.op = "load_path" /\ manager.is_dir)
          => /\ obs.raised = "None"
             /\ \A i \in 1..MaxFiles :
                   (is_yaml(manager.files[i].basename)
                        /\ ~InvalidConfig(manager.files[i]))
                      => crawler_name(manager.files[i]) \in DOMAIN manager.crawlers

----------------------------------------------------------------------------
(* Properties of the storage stages *)

\* a storage stage has just run, through a worker or called directly
StorageRan ==
    obs.op \in {"exec", "store"} /\ obs.stage \in StorageStages

\* C32: when a storage stage with a pass handler has stored an item, exactly
\* one job for the successor stage has been enqueued, carrying the item's
\* url and content_hash, whether the context is incremental or not.
C32_StoreEmitsToSuccessor ==
    (StorageRan /\ obs.done)
        => /\ Len(obs.exported) = 1
           /\ Get(obs.exported[1].data, "url") = Get(obs.item, "url")
           /\ Get(obs.exported[1].data, "content_hash")
                 = Get(obs.item, "content_hash")

\* C33: when the rehashed response is not ok, the data has no content_hash or
\* storing raises, the storage stage leaves the tag store as it found it: no
\* completion tag is written for the item.
C33_NoCompletionTagWithoutStore ==
    (StorageRan /\ ~obs.done) => obs.tags_after = obs.tags_before

\* storing an item that carries the cache key of its emit raised, and the
\* key is not in the tag store
C33_Witness ==
    /\ StorageRan /\ ~obs.done /\ obs.outcome = "error"
    /\ Truthy(Get(obs.item, "_emit_cache_key"))
    /\ Get(obs.item, "content_hash") # None
    /\ Get(obs.item, "status_code") = 200
    /\ ~check_tag(tags, Get(obs.item, "_emit_cache_key"))

----------------------------------------------------------------------------
(* Properties of the enumerate operation *)

\* the incremental check of emit finds the data's cache key tagged
EnumSuppressed ==
    /\ ctx.incremental
    /\ Truthy(make_emit_cache_key(params.data))
    /\ check_tag(tags, make_emit_cache_key(params.data))

----------------------------------------------------------------------------
(* Properties of the fetch/parse loop *)

\* how often parse has handed `url` to fetch
TimesHanded(url) == Cardinality({i \in 1..Len(out) : out[i] = url})

\* C35: with the stage invocations of a run executed one after another, parse
\* hands each URL it discovers to the fetch handler at most once over all its
\* invocations.
C35_ParseEmitsUrlOnce ==
    (Cardinality(DOMAIN workers) = 1)
        => \A url \in DOMAIN Web : TimesHanded(url) <= 1

\* one worker has parsed the page that links to itself a second time and
\* the run has ended with each URL handed on once at most
C35_Witness ==
    /\ Cardinality(DOMAIN workers) = 1
    /\ TimesHanded(U1) = 1 /\ TimesHanded(U2) = 1
    /\ queue = <<>> /\ workers[1].pc = "idle"

\* no job is queued and no worker is inside a stage
CrawlDrained ==
    queue = <<>> /\ \A w \in DOMAIN workers : workers[w].pc = "idle"

\* C36: a run over finitely many pages whose links form cycles ends, under
\* every interleaving of its workers: from some point on the queue is empty
\* and no stage is running.
C36_CrawlTerminates == <>[]CrawlDrained

\* two workers have drained the queue of a run over the cyclic site
C36_Witness ==
    /\ Cardinality(DOMAIN workers) = 2
    /\ CrawlDrained
    /\ TimesHanded(U1) >= 1 /\ TimesHanded(U2) >= 1

----------------------------------------------------------------------------
(* Properties of one response object *)

\* C37: the request of one response object is sent at most once, however
\* often response, status_code, headers, content_hash and fetch() are read,
\* also when the server answered 304 and the cached metadata was applied.
C37_RequestSentOnce == Len(out) <= 1

\* an object that was answered anything but 304 is sent once
SentOnceUnlessNotModified ==
    (out # <<>> /\ out[1] # 304) => Len(out) <= 1

\* status_code, headers, content_hash and fetch() of an object that has been
\* answered send nothing more
AccessorsSendOnce ==
    [][(out # <<>> /\ obs'.op \notin {"request", "response"}) => out' = out]_vars

----------------------------------------------------------------------------
(* Properties of is_queue_idle *)

\* C38: is_queue_idle returns True only if at some instant during the call
\* the queue held neither a todo nor a doing job, also when a running job
\* defers a successor and finishes between the two status queries.
C38_IdleOnlyIfEmptyInstant ==
    (monitor.at = "returned" /\ monitor.ret = "True") => monitor.was_empty

----------------------------------------------------------------------------
(* Properties of the tag keys *)

\* k1 and k2 are the same key, or one is the prefixed form of the other
SameKey(k1, k2) == k1 = k2 \/ k1 = Prefixed(k2) \/ k2 = Prefixed(k1)

\* C39: distinct tag keys never alias: after set_tag(k1), check_tag(k2) is
\* true only if k1 = k2 or one is the '<pipeline-name>/<k>' form of the other;
\* a key that merely begins with the characters of the pipeline name is not
\* taken for a shorter key.
C39_TagKeysNeverAlias ==
    (pc = "checked" /\ obs.ret) => SameKey(params.k1, params.k2)

\* keys that do not begin with the pipeline name's characters, raw or
\* prefixed, alias only as the claim allows
AliasOnlyThroughName ==
    (/\ pc = "checked" /\ obs.ret
     /\ \A k \in {params.k1, params.k2} :
           ~StartsWith(k, CrawlerName) \/ \E r \in RawKeys :
               k = Prefixed(r) /\ ~StartsWith(r, CrawlerName))
        => SameKey(params.k1, params.k2)

----------------------------------------------------------------------------
(* Properties of the dedup policies *)

\* C40: in a context whose incremental flag is false no dedup policy
\* suppresses work: emit defers whatever completion tags exist,
\* skip_incremental returns False and writes no tag, and
\* should_skip_incremental returns False.
C40_NonIncrementalSuppressesNothing ==
    ~ctx.incremental =>
        /\ obs.op = "emit" => obs.enq
        /\ obs.op = "skip_incremental" => ~obs.ret /\ ~obs.wrote
        /\ obs.op = "should_skip_incremental" => ~obs.ret

\* emit and skip_incremental of a context whose flag is false suppress
\* nothing and write nothing
FlagGovernsEmitAndSkip ==
    ~ctx.incremental =>
        /\ obs.op = "emit" => obs.enq
        /\ obs.op = "skip_incremental" => ~obs.ret /\ ~obs.wrote

====
